---- MODULE Spec2Model ----
(***************************************************************************)
(* FADEC engine model (src/src/fadec/src/EngineControl.h): the per-engine  *)
(* state machine, the start and shutdown procedures and the steady-state   *)
(* update, as run once per tick by EngineControl::update.                  *)
(*                                                                         *)
(* Units: rotational speeds in 0.01 percent (N2 = 20% is 2000), times in   *)
(* 0.1 s (1.7 s is 17), temperatures in degrees Celsius.                   *)
(***************************************************************************)
EXTENDS Integers, Sequences, FiniteSets, TLC

VARIABLES
  EngineState,   \* A32NX_ENGINE_STATE:e   (SimVars.h:209)
  EngineTimer,   \* A32NX_ENGINE_TIMER:e   (SimVars.h:211)
  EngineN1,      \* A32NX_ENGINE_N1:e      (SimVars.h:183)
  EngineN2,      \* A32NX_ENGINE_N2:e      (SimVars.h:181)
  EngineEGT,     \* A32NX_ENGINE_EGT:e     (SimVars.h:189)
  simPaused,     \* EngineControl::simPaused
  imbalance,     \* the session's imbalance code, as its eight two-digit fields
  operated,      \* the engine whose controls the host exercises in this session
  coldStart,     \* per engine: the cold-start scenario has held since OFF
  last,          \* what the last update read and the values it started from
  decoder,       \* imbalance decoding: the code in A32NX_ENGINE_IMBALANCE and a read of it
  fuel,          \* the fuel model: the A32NX_FUEL_* variables, pump states and timers
  thrust,        \* the thrust-limit members of EngineControl and the published CLB limit
  chart,         \* the left/right selector chart of the autopilot laws
  dwork,         \* the work area of a signal block of the laws and the last call on it
  lookup,        \* a table lookup of the engine model: its argument and its reads
  converter,     \* the flight-data converter: its files, its position and its exit code
  preset         \* the aircraft preset loader and the host variables it uses

vars == <<EngineState, EngineTimer, EngineN1, EngineN2, EngineEGT, simPaused,
          imbalance, operated, coldStart, last, decoder, fuel, thrust, chart,
          dwork, lookup, converter, preset>>

\* a part of the aircraft that a specification does not exercise
Parked == "parked"

----------------------------------------------------------------------------
(* Bounds of the model *)

\* the longest frame time the host reports, in 0.1 s
MaxDeltaTime == 17
\* the shortest frame time the host reports, in 0.1 s
MinDeltaTime == 12
\* the largest N2 imbalance field drawn (generateEngineImbalance allows 1..30)
MaxN2Imbalance == 30
\* the nominal steady-state EGT of a running engine above ambient, in degrees
EgtRise == 6

(* Program constants *)
NumEngines == 2
VALVE_DELAY_START == 17
VALVE_DELAY_SHUTDOWN == 18
N2_IGNITION == 2000
N2_RESTART == 5000
N2_STOPPED == 5
N2_IDLE_MARGIN == 10
PAUSED_OFFSET == 10

Engines == 1..NumEngines

\* host environment held fixed over a session
AmbientTemp == 0
IdleN2 == 6000
IdleN1 == 2000
IdleEGT == AmbientTemp + EgtRise

DeltaTimes == {MinDeltaTime, MaxDeltaTime}
DeltaTimeDiffs == {0, 1}
Igniters == {0, 1, 2}
Starters == {0, 1}
SimN2Values == {0, N2_STOPPED, IdleN2 - N2_IDLE_MARGIN - 1, IdleN2 - N2_IDLE_MARGIN}
\* the host's N1 follows its N2
HostN1(simN2) == (IdleN1 * simN2) \div IdleN2
OnGrounds == {0, 1}

Abs(x) == IF x < 0 THEN -x ELSE x
Min(a, b) == IF a < b THEN a ELSE b
Max(a, b) == IF a > b THEN a ELSE b

----------------------------------------------------------------------------
(* Calibration functions of RegPolynomials.h *)

\* exp(-x) for x = num/den >= 0, in permille
expFBW(num, den) == (1000 * den) \div (den + num)

\* value moved toward target by the factor keep (permille), rounding toward target
DecayToward(pre, target, keep) ==
  IF pre >= target THEN target + ((pre - target) * keep) \div 1000
                   ELSE target - ((target - pre) * keep) \div 1000

shutdownN1(preN1, deltaTime) == DecayToward(preN1, 0, expFBW(deltaTime, 1))
shutdownN2(preN2, deltaTime) == DecayToward(preN2, 0, expFBW(deltaTime, 1))
shutdownEGT(preEGT, ambientTemp, deltaTime) ==
  DecayToward(preEGT, ambientTemp, expFBW(deltaTime, 1))

startN2(simN2, preN2, idleN2) == Min(idleN2, Max(simN2, preN2))
startN1(newN2, idleN2, idleN1) == (idleN1 * Max(newN2, 0)) \div idleN2
startEGT(newN2, idleN2, ambientTemp, idleEGT) ==
  ambientTemp + ((idleEGT - ambientTemp) * Max(newN2, 0)) \div idleN2

\* the p-th two-digit field of the imbalance code
imbalanceExtractor(imb, parameter) == imb[parameter]

----------------------------------------------------------------------------
(* engineStateMachine, EngineControl.h:182-290 *)

PresentStateOFF(engineState, engineIgniter, engineStarter, simN2) ==
  IF engineState = 0 \/ engineState = 10
  THEN IF engineIgniter = 1 /\ engineStarter = 1 /\ simN2 > N2_IGNITION THEN 1
       ELSE IF engineIgniter = 2 /\ engineStarter = 1 THEN 2
       ELSE 0
  ELSE engineState

PresentStateON(engineState, engineStarter) ==
  IF engineState = 1 \/ engineState = 11
  THEN IF engineStarter = 1 THEN 1 ELSE 4
  ELSE engineState

\* mutant: the Starting block forgets the paused value 12
PresentStateStarting_BaseOnly(sr, engineStarter, simN2, idleN2) ==
  IF sr.engineState = 2
  THEN IF engineStarter = 1 /\ simN2 >= idleN2 - N2_IDLE_MARGIN
       THEN [engineState |-> 1, resetTimer |-> 1]
       ELSE IF engineStarter = 0
       THEN [engineState |-> 4, resetTimer |-> 1]
       ELSE [engineState |-> 2, resetTimer |-> sr.resetTimer]
  ELSE sr

\* mutant: the Starting block wants N2 strictly above idleN2 - 0.1
PresentStateStarting_StrictIdle(sr, engineStarter, simN2, idleN2) ==
  IF sr.engineState = 2 \/ sr.engineState = 12
  THEN IF engineStarter = 1 /\ simN2 > idleN2 - N2_IDLE_MARGIN
       THEN [engineState |-> 1, resetTimer |-> 1]
       ELSE IF engineStarter = 0
       THEN [engineState |-> 4, resetTimer |-> 1]
       ELSE [engineState |-> 2, resetTimer |-> sr.resetTimer]
  ELSE sr

\* mutant: the Starting block goes to ON without resetting the timer
PresentStateStarting_NoReset(sr, engineStarter, simN2, idleN2) ==
  IF sr.engineState = 2 \/ sr.engineState = 12
  THEN IF engineStarter = 1 /\ simN2 >= idleN2 - N2_IDLE_MARGIN
       THEN [engineState |-> 1, resetTimer |-> sr.resetTimer]
       ELSE IF engineStarter = 0
       THEN [engineState |-> 4, resetTimer |-> 1]
       ELSE [engineState |-> 2, resetTimer |-> sr.resetTimer]
  ELSE sr

\* the Starting and Re-Starting blocks: [engineState, resetTimer]
PresentStateStarting(sr, engineStarter, simN2, idleN2) ==
  IF sr.engineState = 2 \/ sr.engineState = 12
  THEN IF engineStarter = 1 /\ simN2 >= idleN2 - N2_IDLE_MARGIN
       THEN [engineState |-> 1, resetTimer |-> 1]
       ELSE IF engineStarter = 0
       THEN [engineState |-> 4, resetTimer |-> 1]
       ELSE [engineState |-> 2, resetTimer |-> sr.resetTimer]
  ELSE sr

PresentStateReStarting(sr, engineStarter, simN2, idleN2) ==
  IF sr.engineState = 3 \/ sr.engineState = 13
  THEN IF engineStarter = 1 /\ simN2 >= idleN2 - N2_IDLE_MARGIN
       THEN [engineState |-> 1, resetTimer |-> 1]
       ELSE IF engineStarter = 0
       THEN [engineState |-> 4, resetTimer |-> 1]
       ELSE [engineState |-> 3, resetTimer |-> sr.resetTimer]
  ELSE sr

\* mutant: the Shutting block goes to OFF without looking at the EGT
PresentStateShutting_IgnoreEGT(sr, engineIgniter, engineStarter, simN2, egtFbw, ambientTemp) ==
  IF sr.engineState = 4 \/ sr.engineState = 14
  THEN IF engineIgniter = 2 /\ engineStarter = 1
       THEN [engineState |-> 3, resetTimer |-> 1]
       ELSE IF engineStarter = 0 /\ simN2 < N2_STOPPED
       THEN [engineState |-> 0, resetTimer |-> 1]
       ELSE IF engineStarter = 1 /\ simN2 > N2_RESTART
       THEN [engineState |-> 3, resetTimer |-> 1]
       ELSE [engineState |-> 4, resetTimer |-> sr.resetTimer]
  ELSE sr

\* mutant: the Shutting block goes to OFF without resetting the timer
PresentStateShutting_NoReset(sr, engineIgniter, engineStarter, simN2, egtFbw, ambientTemp) ==
  IF sr.engineState = 4 \/ sr.engineState = 14
  THEN IF engineIgniter = 2 /\ engineStarter = 1
       THEN [engineState |-> 3, resetTimer |-> 1]
       ELSE IF engineStarter = 0 /\ simN2 < N2_STOPPED /\ egtFbw <= ambientTemp
       THEN [engineState |-> 0, resetTimer |-> sr.resetTimer]
       ELSE IF engineStarter = 1 /\ simN2 > N2_RESTART
       THEN [engineState |-> 3, resetTimer |-> 1]
       ELSE [engineState |-> 4, resetTimer |-> sr.resetTimer]
  ELSE sr

PresentStateShutting(sr, engineIgniter, engineStarter, simN2, egtFbw, ambientTemp) ==
  IF sr.engineState = 4 \/ sr.engineState = 14
  THEN IF engineIgniter = 2 /\ engineStarter = 1
       THEN [engineState |-> 3, resetTimer |-> 1]
       ELSE IF engineStarter = 0 /\ simN2 < N2_STOPPED /\ egtFbw <= ambientTemp
       THEN [engineState |-> 0, resetTimer |-> 1]
       ELSE IF engineStarter = 1 /\ simN2 > N2_RESTART
       THEN [engineState |-> 3, resetTimer |-> 1]
       ELSE [engineState |-> 4, resetTimer |-> sr.resetTimer]
  ELSE sr

\* mutant: a paused tick adds 10 to a state that is paused already
PresentStatePaused_AlwaysAdd(engineState) == engineState + PAUSED_OFFSET

\* the Present State PAUSED branches
PresentStatePaused(engineState) ==
  IF engineState < 10 THEN engineState + PAUSED_OFFSET ELSE engineState

\* the blocks run one after the other on the same engineState variable
engineStateMachine(engineState, egtFbw, engineIgniter, engineStarter, simN2, idleN2, ambientTemp, deltaTimeDiff) ==
  IF deltaTimeDiff = 0
  THEN [engineState |-> PresentStatePaused(engineState), resetTimer |-> 0,
        simPaused |-> TRUE]
  ELSE LET s1 == PresentStateOFF(engineState, engineIgniter, engineStarter, simN2)
           s2 == PresentStateON(s1, engineStarter)
           r3 == PresentStateStarting([engineState |-> s2, resetTimer |-> 0],
                                      engineStarter, simN2, idleN2)
           r4 == PresentStateReStarting(r3, engineStarter, simN2, idleN2)
           r5 == PresentStateShutting(r4, engineIgniter, engineStarter, simN2,
                                      egtFbw, ambientTemp)
       IN  [engineState |-> r5.engineState, resetTimer |-> r5.resetTimer,
            simPaused |-> FALSE]

----------------------------------------------------------------------------
(* The procedures run on one engine's published values:                    *)
(* eng = [state, timer, N1, N2, EGT]                                       *)

\* int n2Imbalance = imbalanceExtractor(imbalance, 4) / 100, in 0.01 percent
StartN2Imbalance(imb, engine) ==
  IF imbalanceExtractor(imb, 1) = engine
  THEN (imbalanceExtractor(imb, 4) \div 100) * 100
  ELSE 0

StartEgtImbalance(imb, engine) ==
  IF imbalanceExtractor(imb, 1) = engine THEN imbalanceExtractor(imb, 2) ELSE 0

\* the EGT of a restarting engine (engineState == 3): [EGT, state]
RestartEGT(startEgtFbw, preEgtFbw, shutdownEgtFbw, deltaTime, idleN2, newN2Fbw) ==
  IF 2 * Abs(startEgtFbw - preEgtFbw) <= 3
  THEN [EGT |-> startEgtFbw, state |-> 2]
  ELSE IF startEgtFbw > preEgtFbw
  THEN [EGT |-> preEgtFbw + (3 * deltaTime * (idleN2 - newN2Fbw)) \div 4000,
        state |-> 3]
  ELSE [EGT |-> shutdownEgtFbw, state |-> 3]

engineStartProcedure(eng, engine, engineState, imb, deltaTime, timer, simN2, ambientTemp) ==
  LET n2Imbalance == StartN2Imbalance(imb, engine)
      egtImbalance == StartEgtImbalance(imb, engine)
  IN  IF timer < VALVE_DELAY_START
      THEN [eng EXCEPT !.timer = timer + deltaTime]
      ELSE LET preN2Fbw == eng.N2
               preEgtFbw == eng.EGT
               newN2Fbw == startN2(simN2, preN2Fbw, IdleN2 - n2Imbalance)
               startEgtFbw == startEGT(newN2Fbw, IdleN2 - n2Imbalance, ambientTemp,
                                       IdleEGT - egtImbalance)
               shutdownEgtFbw == shutdownEGT(preEgtFbw, ambientTemp, deltaTime)
               re == RestartEGT(startEgtFbw, preEgtFbw, shutdownEgtFbw, deltaTime,
                                IdleN2, newN2Fbw)
           IN  [eng EXCEPT !.N2 = newN2Fbw,
                           !.N1 = startN1(newN2Fbw, IdleN2 - n2Imbalance, IdleN1),
                           !.EGT = IF engineState = 3 THEN re.EGT ELSE startEgtFbw,
                           !.state = IF engineState = 3 THEN re.state ELSE @]

\* mutant: the shutdown procedure uses the start procedure's 1.7 s delay
engineShutdownProcedure_StartDelay(eng, ambientTemp, simN1, deltaTime, timer) ==
  IF timer < VALVE_DELAY_START
  THEN [eng EXCEPT !.timer = timer + deltaTime]
  ELSE LET decayedN1 == shutdownN1(eng.N1, deltaTime)
           newN1Fbw == IF simN1 < 500 /\ simN1 > decayedN1 THEN simN1 ELSE decayedN1
       IN  [eng EXCEPT !.N1 = newN1Fbw,
                       !.N2 = shutdownN2(eng.N2, deltaTime),
                       !.EGT = shutdownEGT(eng.EGT, ambientTemp, deltaTime)]

engineShutdownProcedure(eng, ambientTemp, simN1, deltaTime, timer) ==
  IF timer < VALVE_DELAY_SHUTDOWN
  THEN [eng EXCEPT !.timer = timer + deltaTime]
  ELSE LET decayedN1 == shutdownN1(eng.N1, deltaTime)
           \* Takes care of windmilling
           newN1Fbw == IF simN1 < 500 /\ simN1 > decayedN1 THEN simN1 ELSE decayedN1
       IN  [eng EXCEPT !.N1 = newN1Fbw,
                       !.N2 = shutdownN2(eng.N2, deltaTime),
                       !.EGT = shutdownEGT(eng.EGT, ambientTemp, deltaTime)]

updatePrimaryParameters(eng, engine, imb, simN1, simN2) ==
  LET paramImbalance == IF imbalanceExtractor(imb, 1) /= engine THEN 0
                        ELSE imbalanceExtractor(imb, 4)
  IN  [eng EXCEPT !.N1 = simN1, !.N2 = simN2 - paramImbalance]

\* poly->correctedEGT(...) * ratios->theta2(...): the steady-state EGT for the
\* host's corrected N1, which follows the host N1
correctedEGT(simN1, ambientTemp) == ambientTemp + (EgtRise * simN1) \div IdleN1

updateEGT(eng, engine, imb, deltaTime, simOnGround, engineState, simN1, ambientTemp) ==
  LET paramImbalance == IF imbalanceExtractor(imb, 1) /= engine THEN 0
                        ELSE imbalanceExtractor(imb, 2)
      egtFbwActual == correctedEGT(simN1, ambientTemp) - paramImbalance
  IN  IF simOnGround = 1 /\ engineState = 0
      THEN [eng EXCEPT !.EGT = ambientTemp]
      ELSE [eng EXCEPT !.EGT = DecayToward(eng.EGT, egtFbwActual,
                                           expFBW(deltaTime, 100))]

\* the state and timer as engineStateMachine leaves them
AfterStateMachine(eng, in, deltaTimeDiff) ==
  LET sm == engineStateMachine(eng.state, eng.EGT, in.igniter, in.starter,
                               in.simN2, IdleN2, AmbientTemp, deltaTimeDiff)
  IN  [eng EXCEPT !.state = sm.engineState,
                  !.timer = IF sm.resetTimer = 1 THEN 0 ELSE @]

\* switch (int(engineState)) of update, on the values the state machine left
EngineProcedure(e1, engine, in, imb, deltaTime, simOnGround) ==
  CASE e1.state \in {2, 3} ->
         engineStartProcedure(e1, engine, e1.state, imb, deltaTime, e1.timer,
                              in.simN2, AmbientTemp)
    [] e1.state = 4 ->
         engineShutdownProcedure(e1, AmbientTemp, in.simN1, deltaTime, e1.timer)
    [] OTHER ->
         updateEGT(updatePrimaryParameters(e1, engine, imb, in.simN1, in.simN2),
                   engine, imb, deltaTime, simOnGround, e1.state, in.simN1,
                   AmbientTemp)

\* one pass of the loop body of update for one engine: the values the state
\* machine left (sm) and the values at the end of the pass (eng)
EngineTick(eng, engine, in, imb, deltaTime, deltaTimeDiff, simOnGround) ==
  LET e1 == AfterStateMachine(eng, in, deltaTimeDiff)
  IN  [sm |-> [state |-> e1.state, timer |-> e1.timer],
       eng |-> EngineProcedure(e1, engine, in, imb, deltaTime, simOnGround)]

----------------------------------------------------------------------------
(* The host and the session *)

\* what the host reports for an engine whose controls are not exercised
IdleInput == [igniter |-> 0, starter |-> 0, simN2 |-> 0, simN1 |-> 0]

HostInputs ==
  { [igniter |-> i, starter |-> s, simN2 |-> n, simN1 |-> HostN1(n)] :
      i \in Igniters, s \in Starters, n \in SimN2Values }

\* generateEngineImbalance: the fields of the code it stores
ImbalanceCodes ==
  { <<e, 1, 4, MaxN2Imbalance, 2, 15, 3, 86>> : e \in Engines }

Eng(e) == [state |-> EngineState[e], timer |-> EngineTimer[e], N1 |-> EngineN1[e],
           N2 |-> EngineN2[e], EGT |-> EngineEGT[e]]

\* the cold-start scenario: from OFF with host N2 at 0, igniter START and starter
\* ON held on non-paused ticks, host N2 never falling.  coldStart[e] is the host
\* N2 of the last tick while the scenario holds, and NotCold otherwise
NotCold == 0 - 1

ColdStartNext(e, in, deltaTimeDiff) ==
  IF /\ deltaTimeDiff /= 0
     /\ in.igniter = 2 /\ in.starter = 1
     /\ \/ EngineState[e] \in {0, 10} /\ in.simN2 = 0
        \/ coldStart[e] /= NotCold /\ in.simN2 >= coldStart[e]
  THEN in.simN2
  ELSE NotCold

\* the record of a tick, before the first tick and between two ticks
NoTick ==
  [ticked |-> FALSE, deltaTimeDiff |-> 0, deltaTime |-> 0, simOnGround |-> 0,
   pre |-> [e \in Engines |-> [state |-> 0, timer |-> 0, N1 |-> 0, N2 |-> 0,
                               EGT |-> 0]],
   in |-> [e \in Engines |-> IdleInput],
   sm |-> [e \in Engines |-> [state |-> 0, timer |-> 0]]]

\* SimVars() followed by EngineControl::initialize
Init ==
  /\ EngineState = [e \in Engines |-> 10]
  /\ EngineTimer = [e \in Engines |-> 0]
  /\ EngineN1 = [e \in Engines |-> 0]
  /\ EngineN2 = [e \in Engines |-> 0]
  /\ EngineEGT = [e \in Engines |-> 0]
  /\ simPaused = FALSE
  /\ imbalance \in ImbalanceCodes
  /\ operated \in Engines
  /\ coldStart = [e \in Engines |-> NotCold]
  /\ last = NoTick
  /\ decoder = Parked /\ fuel = Parked /\ thrust = Parked /\ chart = Parked
  /\ dwork = Parked /\ lookup = Parked /\ converter = Parked /\ preset = Parked

\* EngineControl::update: prevAnimationDeltaTime is read from an uninitialised
\* local, so the difference handed to the state machine is any value, zero or not
update ==
  /\ ~last.ticked
  /\ \E deltaTime \in DeltaTimes, deltaTimeDiff \in DeltaTimeDiffs,
        simOnGround \in OnGrounds, hin \in HostInputs :
       \E in \in {[e \in Engines |-> IF e = operated THEN hin ELSE IdleInput]} :
       \E new \in {[e \in Engines |->
                     EngineTick(Eng(e), e, in[e], imbalance, deltaTime,
                                deltaTimeDiff, simOnGround)]} :
         /\ EngineState' = [e \in Engines |-> new[e].eng.state]
         /\ EngineTimer' = [e \in Engines |-> new[e].eng.timer]
         /\ EngineN1' = [e \in Engines |-> new[e].eng.N1]
         /\ EngineN2' = [e \in Engines |-> new[e].eng.N2]
         /\ EngineEGT' = [e \in Engines |-> new[e].eng.EGT]
         /\ simPaused' = (deltaTimeDiff = 0)
         /\ coldStart' = [e \in Engines |-> ColdStartNext(e, in[e], deltaTimeDiff)]
         /\ last' = [ticked |-> TRUE, deltaTimeDiff |-> deltaTimeDiff,
                     deltaTime |-> deltaTime, simOnGround |-> simOnGround,
                     pre |-> [e \in Engines |-> Eng(e)],
                     in |-> in,
                     sm |-> [e \in Engines |-> new[e].sm]]
         /\ UNCHANGED <<imbalance, operated, decoder, fuel, thrust, chart, dwork, lookup, converter, preset>>

\* the gauge callback returns: the frame's readings are gone before the next one
frameEnd ==
  /\ last.ticked
  /\ last' = NoTick
  /\ UNCHANGED <<EngineState, EngineTimer, EngineN1, EngineN2, EngineEGT, simPaused,
                 imbalance, operated, coldStart, decoder, fuel, thrust, chart,
                 dwork, lookup, converter, preset>>

Next == update \/ frameEnd

Spec == Init /\ [][Next]_vars

----------------------------------------------------------------------------
(* Reading the record of the last tick *)

Ticked == last.ticked
Paused == last.ticked /\ last.deltaTimeDiff = 0
NonPaused == last.ticked /\ last.deltaTimeDiff /= 0
Base(s) == IF s >= 10 THEN s - 10 ELSE s
EngineStates == {0, 1, 2, 3, 4, 10, 11, 12, 13, 14}

----------------------------------------------------------------------------
(* Claims *)

\* C1: a tick with deltaTimeDiff = 0 stores a base state s as s + 10 and leaves a
\* paused state 10..14 as it is; the stored state is always one of
\* 0,1,2,3,4,10,11,12,13,14.
C1_PausedStoresPlusTen ==
  \A e \in Engines :
    /\ EngineState[e] \in EngineStates
    /\ Paused =>
         /\ last.sm[e].state = IF last.pre[e].state \in 0..4
                               THEN last.pre[e].state + 10
                               ELSE last.pre[e].state
         /\ EngineState[e] = last.sm[e].state

C1_Witness ==
  \E e \in Engines : Paused /\ last.pre[e].state = 2 /\ EngineState[e] = 12

\* C2 (as claimed): a paused tick leaves every engine's published N1, N2 and EGT
\* as they were before the tick.
C2_PausedLeavesN1N2EGT ==
  Paused => \A e \in Engines :
    /\ EngineN1[e] = last.pre[e].N1
    /\ EngineN2[e] = last.pre[e].N2
    /\ EngineEGT[e] = last.pre[e].EGT

\* C3 (as claimed): an engine that starts a non-paused tick in ON, STARTING or
\* RESTARTING with the starter off ends the tick in SHUTTING.
C3_StarterOffEndsInShutting ==
  NonPaused => \A e \in Engines :
    (Base(last.pre[e].state) \in {1, 2, 3} /\ last.in[e].starter = 0)
      => EngineState[e] = 4

\* C4 (as claimed): from OFF on a non-paused tick the engine ends in ON only if
\* igniter = 1, starter = 1 and N2 > 20, in STARTING if igniter = 2 and starter = 1,
\* and in OFF otherwise.
C4_FromOff ==
  NonPaused => \A e \in Engines :
    Base(last.pre[e].state) = 0 =>
      EngineState[e] =
        IF last.in[e].igniter = 1 /\ last.in[e].starter = 1 /\ last.in[e].simN2 > 2000
        THEN 1
        ELSE IF last.in[e].igniter = 2 /\ last.in[e].starter = 1 THEN 2
        ELSE 0

\* C5 (as claimed): whenever the stored base state changes on a non-paused tick,
\* by the state machine or by the start procedure, the timer is 0 at that moment.
C5_TimerZeroOnEveryChange ==
  NonPaused => \A e \in Engines :
    /\ last.sm[e].state /= Base(last.pre[e].state) => last.sm[e].timer = 0
    /\ EngineState[e] /= last.sm[e].state => EngineTimer[e] = 0

\* C5 (amended): whenever the state machine changes the stored base state on a
\* non-paused tick the timer is 0 when it returns; the only other change of state
\* is the start procedure's RESTARTING to STARTING, which leaves the timer at its
\* value of at least 1.7 s.
C5_TimerZeroOnStateMachineChange ==
  NonPaused => \A e \in Engines :
    /\ last.sm[e].state /= Base(last.pre[e].state) => last.sm[e].timer = 0
    /\ EngineState[e] /= last.sm[e].state =>
         /\ last.sm[e].state = 3 /\ EngineState[e] = 2
         /\ EngineTimer[e] = last.sm[e].timer
         /\ EngineTimer[e] >= 17

C5_Witness ==
  \E e \in Engines :
    /\ NonPaused
    /\ Base(last.pre[e].state) = 1 /\ last.sm[e].state = 4 /\ last.sm[e].timer = 0

\* C6: from SHUTTING on a non-paused tick the engine goes to RESTARTING if
\* igniter = 2 and starter = 1 or if starter = 1 and N2 > 50, to OFF only if
\* starter = 0, N2 < 0.05 and EGT <= ambient, and stays SHUTTING otherwise; no tick
\* takes an engine from another state to OFF while N2 >= 0.05 or EGT > ambient.
C6_FromShutting ==
  Ticked => \A e \in Engines :
    /\ (NonPaused /\ Base(last.pre[e].state) = 4) =>
         EngineState[e] =
           IF \/ last.in[e].igniter = 2 /\ last.in[e].starter = 1
              \/ last.in[e].starter = 1 /\ last.in[e].simN2 > 5000
           THEN 3
           ELSE IF /\ last.in[e].starter = 0
                   /\ last.in[e].simN2 < 5
                   /\ last.pre[e].EGT <= AmbientTemp
           THEN 0
           ELSE 4
    /\ (Base(last.pre[e].state) /= 0 /\ Base(EngineState[e]) = 0) =>
         /\ last.in[e].simN2 < 5
         /\ last.pre[e].EGT <= AmbientTemp

C6_Witness ==
  \E e \in Engines :
    NonPaused /\ Base(last.pre[e].state) = 4 /\ EngineState[e] = 0

\* C7 (as claimed): the state machine takes STARTING, and RESTARTING alike, to ON
\* exactly when starter = 1 and N2 >= idleN2 - 0.1, to SHUTTING when starter = 0,
\* and leaves it unchanged otherwise.
C7_StartingExits ==
  NonPaused => \A e \in Engines :
    Base(last.pre[e].state) \in {2, 3} =>
      last.sm[e].state =
        IF last.in[e].starter = 1 /\ last.in[e].simN2 >= IdleN2 - 10 THEN 1
        ELSE IF last.in[e].starter = 0 THEN 4
        ELSE Base(last.pre[e].state)

\* C8: after every non-paused tick the stored state is one of 0..4, and an engine
\* that was in paused state s + 10 is left by the state machine where the rules
\* of base state s take it.
C8_ResumeUsesBaseRules ==
  NonPaused => \A e \in Engines :
    /\ EngineState[e] \in 0..4
    /\ last.pre[e].state >= 10 =>
         LET base == engineStateMachine(last.pre[e].state - 10, last.pre[e].EGT,
                                        last.in[e].igniter, last.in[e].starter,
                                        last.in[e].simN2, IdleN2, AmbientTemp,
                                        last.deltaTimeDiff)
         IN  /\ last.sm[e].state = base.engineState
             /\ last.sm[e].timer = IF base.resetTimer = 1 THEN 0
                                   ELSE last.pre[e].timer

C8_Witness ==
  \E e \in Engines :
    NonPaused /\ last.pre[e].state = 12 /\ EngineState[e] = 1

\* C9: in a cold start (from OFF, igniter START and starter ON held, host N2
\* rising from 0) the engine is in STARTING until the first tick whose host N2 is
\* at least idleN2 - 0.1 and in ON from then on, never in SHUTTING or RESTARTING,
\* and its timer is 0 on the tick that enters ON.
C9_ColdStart ==
  \A e \in Engines :
    coldStart[e] /= NotCold =>
      /\ EngineState[e] \in {1, 2}
      /\ EngineState[e] = 1 <=> coldStart[e] >= IdleN2 - 10
      /\ (Ticked /\ EngineState[e] = 1 /\ last.pre[e].state /= 1) =>
           /\ last.pre[e].state = 2
           /\ EngineTimer[e] = 0

C9_Witness ==
  \E e \in Engines :
    /\ Ticked /\ coldStart[e] >= IdleN2 - 10
    /\ last.pre[e].state = 2 /\ last.pre[e].timer >= 17
    /\ EngineState[e] = 1 /\ EngineTimer[e] = 0

\* C10: on a non-paused tick in STARTING or RESTARTING the timer grows by deltaTime
\* only while it is below 1.7 s, in SHUTTING only while below 1.8 s; until then the
\* procedure writes none of N1, N2 and EGT; once the threshold is reached the timer
\* stays as it is until a transition resets it.
C10_TimerGate ==
  Ticked => \A e \in Engines :
    LET threshold == IF Base(last.sm[e].state) = 4 THEN 18 ELSE 17
    IN  Base(last.sm[e].state) \in {2, 3, 4} =>
          /\ (NonPaused /\ last.sm[e].timer < threshold) =>
               /\ EngineTimer[e] = last.sm[e].timer + last.deltaTime
               /\ EngineN1[e] = last.pre[e].N1
               /\ EngineN2[e] = last.pre[e].N2
               /\ EngineEGT[e] = last.pre[e].EGT
          /\ (NonPaused /\ last.sm[e].timer >= threshold) =>
               EngineTimer[e] = last.sm[e].timer
          /\ Paused => EngineTimer[e] = last.pre[e].timer
          /\ last.sm[e].timer /= last.pre[e].timer =>
               /\ last.sm[e].timer = 0
               /\ last.sm[e].state /= Base(last.pre[e].state)

C10_Witness ==
  \E e \in Engines :
    /\ NonPaused
    /\ last.pre[e].state = 4 /\ last.sm[e].state = 4 /\ last.sm[e].timer = 17
    /\ EngineTimer[e] = 17 + last.deltaTime

----------------------------------------------------------------------------
(* The imbalance code (EngineControl.h generateEngineImbalance, common.h     *)
(* imbalance_extractor).  The code is a double holding sixteen decimal       *)
(* digits; it is kept here as its integer part split in two halves of eight  *)
(* digits, [hi, lo] for hi * 10^8 + lo.  Every code is below 2^53, so the    *)
(* double holds it exactly, and the fraction left by a division by 100 never *)
(* reaches the integer part that int(reg) keeps.                             *)

\* one half of a code: eight decimal digits
HalfCode == 10000 * 10000

\* the values generateEngineImbalance draws for the eight fields
ImbalanceFieldSets ==
  << {1, 2}, {1, 20}, {4, 36}, {1, 30}, {2}, {15}, {3, 12}, {86, 95} >>

GeneratedFields ==
  { <<engine, egt, ff, n2, oilQty, oilPressure, oilPressureIdle, oilTemperatureMax>> :
      engine \in ImbalanceFieldSets[1], egt \in ImbalanceFieldSets[2],
      ff \in ImbalanceFieldSets[3], n2 \in ImbalanceFieldSets[4],
      oilQty \in ImbalanceFieldSets[5], oilPressure \in ImbalanceFieldSets[6],
      oilPressureIdle \in ImbalanceFieldSets[7],
      oilTemperatureMax \in ImbalanceFieldSets[8] }

\* the fields of the code 0205043002150306
ScenarioFields == <<2, 5, 4, 30, 2, 15, 3, 6>>

\* common.h to_string_with_zero_padding: the decimal digits of value, zeros
\* inserted in front up to total_length
RECURSIVE DecimalDigits(_)
DecimalDigits(value) ==
  IF value < 10 THEN <<value>> ELSE Append(DecimalDigits(value \div 10), value % 10)

RECURSIVE to_string_with_zero_padding(_, _)
to_string_with_zero_padding(value, total_length) ==
  IF Len(DecimalDigits(value)) < total_length
  THEN <<0>> \o to_string_with_zero_padding(value, total_length - 1)
  ELSE DecimalDigits(value)

\* the concatenation of the padded fields
RECURSIVE imbalanceCode(_)
imbalanceCode(fields) ==
  IF fields = <<>> THEN <<>>
  ELSE to_string_with_zero_padding(Head(fields), 2) \o imbalanceCode(Tail(fields))

\* std::stod of a string of decimal digits
RECURSIVE DigitsValue(_)
DigitsValue(str) ==
  IF str = <<>> THEN 0 ELSE 10 * DigitsValue(SubSeq(str, 1, Len(str) - 1)) + str[Len(str)]

stod(str) ==
  IF Len(str) <= 8 THEN [hi |-> 0, lo |-> DigitsValue(str)]
  ELSE [hi |-> DigitsValue(SubSeq(str, 1, Len(str) - 8)),
        lo |-> DigitsValue(SubSeq(str, Len(str) - 7, Len(str)))]

\* generateEngineImbalance: the value handed to setEngineImbalance
generateEngineImbalance(fields) == stod(imbalanceCode(fields))

\* reg = fmod(imbalance, 100), as far as int(reg) sees it
Fmod100(code) == code.lo % 100

\* imbalance /= 100, the integer part
Div100(code) ==
  [hi |-> code.hi \div 100,
   lo |-> (code.hi % 100) * (HalfCode \div 100) + code.lo \div 100]

RECURSIVE imbalance_extractor_loop(_, _, _)
imbalance_extractor_loop(reg, code, parameter) ==
  IF parameter > 0
  THEN imbalance_extractor_loop(Fmod100(code), Div100(code), parameter - 1)
  ELSE reg

\* common.h imbalance_extractor
imbalance_extractor(code, parameter) == imbalance_extractor_loop(0, code, 8 - parameter)

\* the engine variables after initialize, for the specifications that leave them alone
EngineParked ==
  /\ EngineState = [e \in Engines |-> 10]
  /\ EngineTimer = [e \in Engines |-> 0]
  /\ EngineN1 = [e \in Engines |-> 0]
  /\ EngineN2 = [e \in Engines |-> 0]
  /\ EngineEGT = [e \in Engines |-> 0]
  /\ simPaused = FALSE
  /\ imbalance = <<1, 1, 4, MaxN2Imbalance, 2, 15, 3, 86>>
  /\ operated = 1
  /\ coldStart = [e \in Engines |-> NotCold]
  /\ last = NoTick

engineVars == <<EngineState, EngineTimer, EngineN1, EngineN2, EngineEGT, simPaused, imbalance, operated, coldStart, last>>

\* the code in the variable, not read yet
InitImbalance ==
  /\ EngineParked
  /\ dwork = Parked /\ lookup = Parked /\ converter = Parked /\ preset = Parked
  /\ \E fields \in GeneratedFields \cup {ScenarioFields} :
       decoder = [fields |-> fields, code |-> generateEngineImbalance(fields),
                  parameter |-> 0, reg |-> 0]
  /\ fuel = Parked /\ thrust = Parked /\ chart = Parked

\* a read of one field of the code
extractImbalance ==
  /\ \E parameter \in 1..8 :
       decoder' = [decoder EXCEPT !.parameter = parameter,
                                  !.reg = imbalance_extractor(decoder.code, parameter)]
  /\ UNCHANGED <<engineVars, fuel, thrust, chart, dwork, lookup, converter, preset>>

NextImbalance == extractImbalance

SpecImbalance == InitImbalance /\ [][NextImbalance]_vars

\* C11: a read of field p of a code returns the p-th two-digit field counted from
\* the most significant pair, the value the code was built from (02, 05, 04, 30,
\* 02, 15, 03, 06 for the code 0205043002150306)
C11_DecodesBack ==
  decoder.parameter /= 0 => decoder.reg = decoder.fields[decoder.parameter]

----------------------------------------------------------------------------
(* The fuel model (EngineControl.h updateFuel).  Quantities are whole pounds, *)
(* fuel used whole kilograms, fuel flows kg/h, deltaTime seconds, the three   *)
(* timers milliseconds, and the tank readings of the simulator whole gallons. *)

\* weight of a gallon of fuel in pounds, as the simulator reports it
FuelWeightGallon == 2
\* capacity of a wing tank in gallons, as the simulator reports it
TankCapacity == 2
\* a centre-tank reading set from the fuel page of the simulator, in gallons
UiCenterQuantity == 7000
\* the frame time of a fuel tick in seconds
FuelDeltaTime == 1
\* wall-clock milliseconds between two calls of updateFuel
WallStep == 700
\* a running engine's fuel flow in kg/h
RunningFF == 7200
\* the largest value of a fuel-used accumulator that is followed, in kg
MaxFuelUsed == 2
\* the timers are followed up to this value, above every threshold
TimerCap == 2800

SECONDS_PER_HOUR == 3600
FUEL_THRESHOLD == 661
PUMP_REARM_MS == 1000
PUMP_DRAINING_MS == 2100
PUMP_FILLING_MS == 2700
FUEL_SAVE_MS == 1000

\* fuelBurn * KGS_TO_LBS with KGS_TO_LBS = 1 / 0.4535934, in whole pounds
KgsToLbs(kg) == (kg * 22046) \div 10000

\* Timer::elapsed after wallStep more milliseconds
Elapsed(timer, wallStep) == Min(timer + wallStep, TimerCap)

\* PumpStateLogic with the stored quantity kept when the DRAINING dwell ends
PumpStateLogic_DrainKeepsFuel(pumpState, elapsed, fuelPre, quantity) ==
  IF pumpState = 0 /\ (elapsed = 0 \/ elapsed >= PUMP_REARM_MS)
  THEN IF fuelPre - quantity > 0 /\ quantity = 0
       THEN [pumpState |-> 1, fuelPre |-> fuelPre, timer |-> 0]
       ELSE IF fuelPre = 0 /\ quantity - fuelPre > 0
            THEN [pumpState |-> 2, fuelPre |-> fuelPre, timer |-> 0]
            ELSE [pumpState |-> 0, fuelPre |-> fuelPre, timer |-> elapsed]
  ELSE IF pumpState = 1 /\ elapsed >= PUMP_DRAINING_MS
       THEN [pumpState |-> 0, fuelPre |-> fuelPre, timer |-> 0]
       ELSE IF pumpState = 2 /\ elapsed >= PUMP_FILLING_MS
            THEN [pumpState |-> 0, fuelPre |-> fuelPre, timer |-> 0]
            ELSE [pumpState |-> pumpState, fuelPre |-> fuelPre, timer |-> elapsed]

\* PumpStateLogic with the DRAINING dwell as short as the re-arm time of OFF
PumpStateLogic_ShortDrain(pumpState, elapsed, fuelPre, quantity) ==
  IF pumpState = 0 /\ (elapsed = 0 \/ elapsed >= PUMP_REARM_MS)
  THEN IF fuelPre - quantity > 0 /\ quantity = 0
       THEN [pumpState |-> 1, fuelPre |-> fuelPre, timer |-> 0]
       ELSE IF fuelPre = 0 /\ quantity - fuelPre > 0
            THEN [pumpState |-> 2, fuelPre |-> fuelPre, timer |-> 0]
            ELSE [pumpState |-> 0, fuelPre |-> fuelPre, timer |-> elapsed]
  ELSE IF pumpState = 1 /\ elapsed >= PUMP_REARM_MS
       THEN [pumpState |-> 0, fuelPre |-> 0, timer |-> 0]
       ELSE IF pumpState = 2 /\ elapsed >= PUMP_FILLING_MS
            THEN [pumpState |-> 0, fuelPre |-> fuelPre, timer |-> 0]
            ELSE [pumpState |-> pumpState, fuelPre |-> fuelPre, timer |-> elapsed]

\* the pump state logic of one wing: the pump state written, the local
\* fuel...Pre it leaves and the timer after its reset
PumpStateLogic(pumpState, elapsed, fuelPre, quantity) ==
  IF pumpState = 0 /\ (elapsed = 0 \/ elapsed >= PUMP_REARM_MS)
  THEN IF fuelPre - quantity > 0 /\ quantity = 0
       THEN [pumpState |-> 1, fuelPre |-> fuelPre, timer |-> 0]
       ELSE IF fuelPre = 0 /\ quantity - fuelPre > 0
            THEN [pumpState |-> 2, fuelPre |-> fuelPre, timer |-> 0]
            ELSE [pumpState |-> 0, fuelPre |-> fuelPre, timer |-> elapsed]
  ELSE IF pumpState = 1 /\ elapsed >= PUMP_DRAINING_MS
       THEN [pumpState |-> 0, fuelPre |-> 0, timer |-> 0]
       ELSE IF pumpState = 2 /\ elapsed >= PUMP_FILLING_MS
            THEN [pumpState |-> 0, fuelPre |-> fuelPre, timer |-> 0]
            ELSE [pumpState |-> pumpState, fuelPre |-> fuelPre, timer |-> elapsed]

\* deltaFuelRate > FUEL_THRESHOLD, with deltaFuelRate =
\* abs(fuelTotalActual - fuelTotalPre) / (fuelWeightGallon * deltaTime)
DeltaFuelRateExceeds(fuelTotalActual, fuelTotalPre, deltaTime) ==
  Abs(fuelTotalActual - fuelTotalPre) > FUEL_THRESHOLD * FuelWeightGallon * deltaTime

uiFuelTamper(refuelStartedByUser, refuelRate, exceeds) ==
  \/ refuelStartedByUser = 0 /\ exceeds
  \/ refuelStartedByUser = 1 /\ exceeds /\ refuelRate < 2

\* the cycle fuel burn of one engine in kg: m * deltaTime^2 / 2 + b * deltaTime
\* with m = (engineFF - enginePreFF) / deltaTime and deltaTime in hours
fuelBurn(engineFF, enginePreFF, deltaTime) ==
  ((engineFF - enginePreFF) * deltaTime) \div (2 * SECONDS_PER_HOUR) + (enginePreFF * deltaTime) \div SECONDS_PER_HOUR

\* the engine and wing routine of one side: burn, fuel used, the aux transfer
\* and the local fuel...Pre it leaves
WingRoutine(fuelPre, engineFF, enginePreFF, deltaTime, fuelUsed, fuelAuxPre, auxQuantity) ==
  IF fuelPre > 0
  THEN [fuelBurn |-> fuelBurn(engineFF, enginePreFF, deltaTime),
        fuelUsed |-> fuelUsed + fuelBurn(engineFF, enginePreFF, deltaTime),
        xfrAux |-> IF fuelAuxPre > auxQuantity THEN fuelAuxPre - auxQuantity ELSE 0,
        fuelPre |-> fuelPre]
  ELSE [fuelBurn |-> 0, fuelUsed |-> fuelUsed, xfrAux |-> 0, fuelPre |-> 0]

\* MainFuelLogic with the left wing left above its capacity when only it overflows
MainFuelLogic_LeftUnclamped(fuelLeft, fuelRight, leftCapacity, rightCapacity, centerQuantity) ==
  IF fuelLeft > leftCapacity /\ fuelRight > rightCapacity
  THEN [fuelLeft |-> leftCapacity, fuelRight |-> rightCapacity,
        fuelCenter |-> centerQuantity + (fuelLeft - leftCapacity) + (fuelRight - rightCapacity)]
  ELSE IF fuelRight > rightCapacity
       THEN [fuelLeft |-> fuelLeft, fuelRight |-> rightCapacity,
             fuelCenter |-> centerQuantity + fuelRight - rightCapacity]
       ELSE [fuelLeft |-> fuelLeft, fuelRight |-> fuelRight, fuelCenter |-> centerQuantity]

\* the inner tank overflow check: the wing quantities and the centre quantity stored
MainFuelLogic(fuelLeft, fuelRight, leftCapacity, rightCapacity, centerQuantity) ==
  IF fuelLeft > leftCapacity /\ fuelRight > rightCapacity
  THEN [fuelLeft |-> leftCapacity, fuelRight |-> rightCapacity,
        fuelCenter |-> centerQuantity + (fuelLeft - leftCapacity) + (fuelRight - rightCapacity)]
  ELSE IF fuelRight > rightCapacity
       THEN [fuelLeft |-> fuelLeft, fuelRight |-> rightCapacity,
             fuelCenter |-> centerQuantity + fuelRight - rightCapacity]
       ELSE IF fuelLeft > leftCapacity
            THEN [fuelLeft |-> leftCapacity, fuelRight |-> fuelRight,
                  fuelCenter |-> centerQuantity + fuelLeft - leftCapacity]
            ELSE [fuelLeft |-> fuelLeft, fuelRight |-> fuelRight, fuelCenter |-> centerQuantity]

\* the condition under which the quantities are saved in the configuration file
SaveCondition(elapsed, simOnGround, engine1State, engine2State) ==
  /\ elapsed >= FUEL_SAVE_MS
  /\ simOnGround = 1
  /\ \/ engine1State \in {0, 10, 4, 14}
     \/ engine2State \in {0, 10, 4, 14}

\* the five stored quantities of a fuel record
FuelTotalPre(f) ==
  f.FuelLeftPre + f.FuelRightPre + f.FuelAuxLeftPre + f.FuelAuxRightPre + f.FuelCenterPre

\* fuel / fuelWeightGallon as it lands in a tank of the simulator, which holds
\* no negative quantity
ToGallons(lbs) == Max(0, lbs \div FuelWeightGallon)

\* the quantities, accumulators, fuel flows and pump states stored in f
StoredOf(f) ==
  [FuelLeftPre |-> f.FuelLeftPre, FuelRightPre |-> f.FuelRightPre,
   FuelAuxLeftPre |-> f.FuelAuxLeftPre, FuelAuxRightPre |-> f.FuelAuxRightPre,
   FuelCenterPre |-> f.FuelCenterPre,
   FuelUsedLeft |-> f.FuelUsedLeft, FuelUsedRight |-> f.FuelUsedRight,
   Engine1PreFF |-> f.Engine1PreFF, Engine2PreFF |-> f.Engine2PreFF,
   PumpStateLeft |-> f.PumpStateLeft, PumpStateRight |-> f.PumpStateRight]

NothingStored ==
  [FuelLeftPre |-> 0, FuelRightPre |-> 0, FuelAuxLeftPre |-> 0, FuelAuxRightPre |-> 0,
   FuelCenterPre |-> 0, FuelUsedLeft |-> 0, FuelUsedRight |-> 0,
   Engine1PreFF |-> 0, Engine2PreFF |-> 0, PumpStateLeft |-> 0, PumpStateRight |-> 0]

\* what a call of updateFuel leaves of its reads and locals
NoFuelTick ==
  [ticked |-> FALSE, simPaused |-> FALSE, uiFuelTamper |-> FALSE, refuel |-> FALSE,
   burnLbs |-> 0, fuelLeft |-> 0, fuelRight |-> 0, centerQuantity |-> 0,
   pre |-> NothingStored, elapsedLeft |-> 0, elapsedRight |-> 0, elapsedFuel |-> 0,
   simOnGround |-> 0, engine1State |-> 0, engine2State |-> 0, saved |-> FALSE]

\* updateFuel on the stored record f (the simulator's tanks as it now reports
\* them) with the reads in: the record it leaves
updateFuelTick(f, in) ==
  LET leftQuantity == f.TankLeftQuantity * FuelWeightGallon
      rightQuantity == f.TankRightQuantity * FuelWeightGallon
      leftAuxQuantity == f.TankLeftAuxQuantity * FuelWeightGallon
      rightAuxQuantity == f.TankRightAuxQuantity * FuelWeightGallon
      centerQuantity == f.TankCenterQuantity * FuelWeightGallon
      fuelTotalActual == leftQuantity + rightQuantity + leftAuxQuantity + rightAuxQuantity + centerQuantity
      exceeds == DeltaFuelRateExceeds(fuelTotalActual, FuelTotalPre(f), in.deltaTime)
      elapsedLeft == Elapsed(f.timerLeft, in.wallStep)
      elapsedRight == Elapsed(f.timerRight, in.wallStep)
      elapsedFuel == Elapsed(f.timerFuel, in.wallStep)
      pumpLeft == PumpStateLogic(f.PumpStateLeft, elapsedLeft, f.FuelLeftPre, leftQuantity)
      pumpRight == PumpStateLogic(f.PumpStateRight, elapsedRight, f.FuelRightPre, rightQuantity)
      tamper == uiFuelTamper(in.refuelStartedByUser, in.refuelRate, exceeds)
      left == WingRoutine(pumpLeft.fuelPre, in.engine1FF, f.Engine1PreFF, in.deltaTime, f.FuelUsedLeft, f.FuelAuxLeftPre, leftAuxQuantity)
      right == WingRoutine(pumpRight.fuelPre, in.engine2FF, f.Engine2PreFF, in.deltaTime, f.FuelUsedRight, f.FuelAuxRightPre, rightAuxQuantity)
      xfrCenter == IF f.FuelCenterPre > centerQuantity THEN f.FuelCenterPre - centerQuantity ELSE 0
      fuelLeft == (left.fuelPre - KgsToLbs(left.fuelBurn)) + left.xfrAux + (xfrCenter \div 2)
      fuelRight == (right.fuelPre - KgsToLbs(right.fuelBurn)) + right.xfrAux + (xfrCenter \div 2)
      main == MainFuelLogic(fuelLeft, fuelRight, in.leftCapacity * FuelWeightGallon, in.rightCapacity * FuelWeightGallon, centerQuantity)
      frozen == in.simPaused \/ tamper
      refuel == ~frozen /\ in.refuelStartedByUser = 1
      normal == ~frozen /\ ~refuel
      publish == frozen /\ in.devState = 0
      saved == SaveCondition(elapsedFuel, in.simOnGround, in.engine1State, in.engine2State)
  IN  [FuelLeftPre |-> IF frozen THEN pumpLeft.fuelPre ELSE IF refuel THEN leftQuantity ELSE main.fuelLeft,
       FuelRightPre |-> IF frozen THEN pumpRight.fuelPre ELSE IF refuel THEN rightQuantity ELSE main.fuelRight,
       FuelAuxLeftPre |-> IF frozen THEN f.FuelAuxLeftPre ELSE leftAuxQuantity,
       FuelAuxRightPre |-> IF frozen THEN f.FuelAuxRightPre ELSE rightAuxQuantity,
       FuelCenterPre |-> IF frozen THEN f.FuelCenterPre ELSE IF refuel THEN centerQuantity ELSE main.fuelCenter,
       FuelUsedLeft |-> IF normal THEN left.fuelUsed ELSE f.FuelUsedLeft,
       FuelUsedRight |-> IF normal THEN right.fuelUsed ELSE f.FuelUsedRight,
       Engine1PreFF |-> IF normal THEN in.engine1FF ELSE f.Engine1PreFF,
       Engine2PreFF |-> IF normal THEN in.engine2FF ELSE f.Engine2PreFF,
       PumpStateLeft |-> pumpLeft.pumpState,
       PumpStateRight |-> pumpRight.pumpState,
       timerLeft |-> pumpLeft.timer,
       timerRight |-> pumpRight.timer,
       timerFuel |-> IF saved THEN 0 ELSE elapsedFuel,
       TankLeftQuantity |-> IF publish THEN ToGallons(pumpLeft.fuelPre) ELSE IF normal THEN ToGallons(main.fuelLeft) ELSE f.TankLeftQuantity,
       TankRightQuantity |-> IF publish THEN ToGallons(pumpRight.fuelPre) ELSE IF normal THEN ToGallons(main.fuelRight) ELSE f.TankRightQuantity,
       TankLeftAuxQuantity |-> IF publish THEN ToGallons(f.FuelAuxLeftPre) ELSE f.TankLeftAuxQuantity,
       TankRightAuxQuantity |-> IF publish THEN ToGallons(f.FuelAuxRightPre) ELSE f.TankRightAuxQuantity,
       TankCenterQuantity |-> IF publish THEN ToGallons(f.FuelCenterPre) ELSE IF normal THEN ToGallons(main.fuelCenter) ELSE f.TankCenterQuantity,
       last |-> [ticked |-> TRUE, simPaused |-> in.simPaused, uiFuelTamper |-> tamper,
                 refuel |-> refuel,
                 burnLbs |-> IF normal THEN KgsToLbs(left.fuelBurn) + KgsToLbs(right.fuelBurn) ELSE 0,
                 fuelLeft |-> fuelLeft, fuelRight |-> fuelRight, centerQuantity |-> centerQuantity,
                 pre |-> StoredOf(f),
                 elapsedLeft |-> elapsedLeft, elapsedRight |-> elapsedRight,
                 elapsedFuel |-> elapsedFuel, simOnGround |-> in.simOnGround,
                 engine1State |-> in.engine1State, engine2State |-> in.engine2State,
                 saved |-> saved]]

\* the configurations getConfigurationFromFile returns, in gallons: the
\* defaults (full wings, fuel in the aux tanks, empty centre) and a saved
\* one with fuel in the centre tank and a right wing half full
Configurations ==
  { [fuelCenter |-> 0, fuelLeft |-> TankCapacity, fuelRight |-> TankCapacity, fuelLeftAux |-> 1, fuelRightAux |-> 1],
    [fuelCenter |-> 2, fuelLeft |-> TankCapacity, fuelRight |-> 1, fuelLeftAux |-> 1, fuelRightAux |-> 1] }

\* what happens to the simulator's tanks between two calls: its own fuel system
\* feeds from the aux tanks or from the centre tank, the fuel page of the
\* simulator sets the centre tank, a wing tank reads empty or full
SimAfter(f, event) ==
  CASE event = "auxFeed" ->
         [f EXCEPT !.TankLeftAuxQuantity = Max(0, @ - 1), !.TankRightAuxQuantity = Max(0, @ - 1)]
    [] event = "centerFeed" -> [f EXCEPT !.TankCenterQuantity = Max(0, @ - 2)]
    [] event = "uiCenter" -> [f EXCEPT !.TankCenterQuantity = UiCenterQuantity]
    [] event = "wingsEmpty" -> [f EXCEPT !.TankLeftQuantity = 0, !.TankRightQuantity = 0]
    [] event = "leftEmpty" -> [f EXCEPT !.TankLeftQuantity = 0]
    [] event = "wingsFull" ->
         [f EXCEPT !.TankLeftQuantity = TankCapacity, !.TankRightQuantity = TankCapacity]
    [] OTHER -> f

\* the reads of a call: paused or not, refuelStartedByUser and refuelRate, the
\* fuel flows updateFF published, on ground or not and the engine states
FuelReads(pauses, refuels, flows, groundAndEngines) ==
  { [simPaused |-> p, refuelStartedByUser |-> rf[1], refuelRate |-> rf[2],
     leftCapacity |-> TankCapacity, rightCapacity |-> TankCapacity,
     engine1FF |-> ff[1], engine2FF |-> ff[2],
     simOnGround |-> g[1],
     engine1State |-> IF p THEN g[2] + PAUSED_OFFSET ELSE g[2],
     engine2State |-> IF p THEN g[3] + PAUSED_OFFSET ELSE g[3],
     devState |-> 0, deltaTime |-> FuelDeltaTime, wallStep |-> WallStep] :
      p \in pauses, rf \in refuels, ff \in flows, g \in groundAndEngines }

\* burning and feeding: on ground and in flight, engines stopped and running
FeedEvents == {"none", "auxFeed", "centerFeed", "uiCenter"}

FuelInputs ==
  FuelReads(BOOLEAN, { <<0, 0>>, <<1, 0>>, <<1, 2>> },
            { <<0, 0>>, <<RunningFF, 0>>, <<RunningFF, RunningFF>> },
            { <<1, 0, 0>>, <<1, 1, 4>>, <<1, 1, 1>>, <<0, 4, 0>> })

\* wing tanks running empty and being filled, engines stopped
PumpEvents == {"none", "wingsEmpty", "leftEmpty", "wingsFull", "uiCenter"}

PumpInputs == FuelReads(BOOLEAN, { <<0, 0>>, <<1, 2>> }, { <<0, 0>> }, { <<0, 0, 0>> })

\* the half of the centre transfer each wing receives is a whole number of pounds
WholeTransfer(f) ==
  f.FuelCenterPre > f.TankCenterQuantity * FuelWeightGallon
    => (f.FuelCenterPre - f.TankCenterQuantity * FuelWeightGallon) % 2 = 0

\* initialize: the stored quantities from the configuration, which the
\* simulator's tanks hold as well, the pumps off
InitFuel ==
  /\ EngineParked
  /\ dwork = Parked /\ lookup = Parked /\ converter = Parked /\ preset = Parked
  /\ \E configuration \in Configurations :
       fuel = [FuelLeftPre |-> configuration.fuelLeft * FuelWeightGallon,
               FuelRightPre |-> configuration.fuelRight * FuelWeightGallon,
               FuelAuxLeftPre |-> configuration.fuelLeftAux * FuelWeightGallon,
               FuelAuxRightPre |-> configuration.fuelRightAux * FuelWeightGallon,
               FuelCenterPre |-> configuration.fuelCenter * FuelWeightGallon,
               FuelUsedLeft |-> 0, FuelUsedRight |-> 0,
               Engine1PreFF |-> 0, Engine2PreFF |-> 0,
               PumpStateLeft |-> 0, PumpStateRight |-> 0,
               timerLeft |-> 0, timerRight |-> 0, timerFuel |-> 0,
               TankLeftQuantity |-> configuration.fuelLeft,
               TankRightQuantity |-> configuration.fuelRight,
               TankLeftAuxQuantity |-> configuration.fuelLeftAux,
               TankRightAuxQuantity |-> configuration.fuelRightAux,
               TankCenterQuantity |-> configuration.fuelCenter,
               last |-> NoFuelTick]
  /\ decoder = Parked /\ thrust = Parked /\ chart = Parked

\* one call of updateFuel with the reads in, after event; the fuel page is not
\* an EFB refuel, and the fuel-used accumulators are followed up to MaxFuelUsed
FuelStep(event, in) ==
  /\ ~fuel.last.ticked
  /\ event = "uiCenter" => in.refuelRate < 2
  /\ \E f \in {SimAfter(fuel, event)} :
       /\ WholeTransfer(f)
       /\ \E new \in {updateFuelTick(f, in)} :
            /\ new.FuelUsedLeft <= MaxFuelUsed
            /\ new.FuelUsedRight <= MaxFuelUsed
            /\ fuel' = new
  /\ UNCHANGED <<engineVars, decoder, thrust, chart, dwork, lookup, converter, preset>>

updateFuel == \E event \in FeedEvents, in \in FuelInputs : FuelStep(event, in)

updateFuelPumps == \E event \in PumpEvents, in \in PumpInputs : FuelStep(event, in)

\* update returns: the reads and locals of the call are gone
fuelFrameEnd ==
  /\ fuel.last.ticked
  /\ fuel' = [fuel EXCEPT !.last = NoFuelTick]
  /\ UNCHANGED <<engineVars, decoder, thrust, chart, dwork, lookup, converter, preset>>

NextFuel == updateFuel \/ fuelFrameEnd

SpecFuel == InitFuel /\ [][NextFuel]_vars

NextPump == updateFuelPumps \/ fuelFrameEnd

SpecPump == InitFuel /\ [][NextPump]_vars

----------------------------------------------------------------------------
(* Reading the record of the last fuel tick *)

FuelTicked == fuel.last.ticked
FuelFrozen == fuel.last.ticked /\ (fuel.last.simPaused \/ fuel.last.uiFuelTamper)
FuelNormal == fuel.last.ticked /\ ~fuel.last.simPaused /\ ~fuel.last.uiFuelTamper /\ ~fuel.last.refuel

\* C12: on a tick that is not paused, not tampered and not refuelling, the sum of
\* the five stored tank quantities after updateFuel is the sum before the tick
\* minus the fuel burned by both engines in the tick
C12_FuelConserved ==
  FuelNormal => FuelTotalPre(fuel) = FuelTotalPre(fuel.last.pre) - fuel.last.burnLbs

\* C13: after a tick that is not paused, not tampered and not refuelling, the
\* stored left and right wing quantities are at most the tank capacities, and
\* what a computed wing quantity had above its capacity is in the centre
\* quantity stored in the same tick
C13_WingsWithinCapacity ==
  FuelNormal =>
    /\ fuel.FuelLeftPre <= TankCapacity * FuelWeightGallon
    /\ fuel.FuelRightPre <= TankCapacity * FuelWeightGallon
    /\ fuel.FuelLeftPre = Min(fuel.last.fuelLeft, TankCapacity * FuelWeightGallon)
    /\ fuel.FuelRightPre = Min(fuel.last.fuelRight, TankCapacity * FuelWeightGallon)
    /\ fuel.FuelCenterPre = fuel.last.centerQuantity
                            + Max(0, fuel.last.fuelLeft - TankCapacity * FuelWeightGallon)
                            + Max(0, fuel.last.fuelRight - TankCapacity * FuelWeightGallon)

\* a normal tick in which only the left wing was computed above its capacity
C13_Witness ==
  /\ FuelNormal
  /\ fuel.last.fuelLeft > TankCapacity * FuelWeightGallon
  /\ fuel.last.fuelRight <= TankCapacity * FuelWeightGallon
  /\ fuel.FuelCenterPre > fuel.last.centerQuantity

\* C14: on a tick where the simulation is paused or a fuel tamper is detected,
\* updateFuel leaves the five stored tank quantities, both fuel-used accumulators
\* and both previous fuel flows exactly as they were before the tick
C14_FrozenLeavesStored ==
  FuelFrozen =>
    /\ fuel.FuelLeftPre = fuel.last.pre.FuelLeftPre
    /\ fuel.FuelRightPre = fuel.last.pre.FuelRightPre
    /\ fuel.FuelAuxLeftPre = fuel.last.pre.FuelAuxLeftPre
    /\ fuel.FuelAuxRightPre = fuel.last.pre.FuelAuxRightPre
    /\ fuel.FuelCenterPre = fuel.last.pre.FuelCenterPre
    /\ fuel.FuelUsedLeft = fuel.last.pre.FuelUsedLeft
    /\ fuel.FuelUsedRight = fuel.last.pre.FuelUsedRight
    /\ fuel.Engine1PreFF = fuel.last.pre.Engine1PreFF
    /\ fuel.Engine2PreFF = fuel.last.pre.Engine2PreFF

\* C14, amended: on a paused or tamper tick the aux and centre quantities, the
\* fuel-used accumulators and the previous fuel flows stay as they were, and so
\* does each wing quantity unless that wing's pump was DRAINING with 2100 ms
\* elapsed, in which case the wing quantity is stored as 0
C14_FrozenExceptDrained ==
  FuelFrozen =>
    /\ fuel.FuelLeftPre =
         IF fuel.last.pre.PumpStateLeft = 1 /\ fuel.last.elapsedLeft >= 2100
         THEN 0 ELSE fuel.last.pre.FuelLeftPre
    /\ fuel.FuelRightPre =
         IF fuel.last.pre.PumpStateRight = 1 /\ fuel.last.elapsedRight >= 2100
         THEN 0 ELSE fuel.last.pre.FuelRightPre
    /\ fuel.FuelAuxLeftPre = fuel.last.pre.FuelAuxLeftPre
    /\ fuel.FuelAuxRightPre = fuel.last.pre.FuelAuxRightPre
    /\ fuel.FuelCenterPre = fuel.last.pre.FuelCenterPre
    /\ fuel.FuelUsedLeft = fuel.last.pre.FuelUsedLeft
    /\ fuel.FuelUsedRight = fuel.last.pre.FuelUsedRight
    /\ fuel.Engine1PreFF = fuel.last.pre.Engine1PreFF
    /\ fuel.Engine2PreFF = fuel.last.pre.Engine2PreFF

\* a paused or tamper tick on which the left pump's DRAINING dwell ended with
\* fuel still stored for the left wing
C14_Witness ==
  /\ FuelFrozen
  /\ fuel.last.pre.PumpStateLeft = 1
  /\ fuel.last.elapsedLeft >= 2100
  /\ fuel.last.pre.FuelLeftPre > 0
  /\ fuel.FuelLeftPre = 0

\* C15: fuel quantities are written to the persisted configuration on a tick
\* only if at least 1000 ms have elapsed since the previous write, the aircraft
\* is on the ground and both engines are in OFF or SHUTTING or their paused
\* variants
C15_SaveOnlyWithBothEnginesStopped ==
  FuelTicked /\ fuel.last.saved =>
    /\ fuel.last.elapsedFuel >= 1000
    /\ fuel.last.simOnGround = 1
    /\ fuel.last.engine1State \in {0, 4, 10, 14}
    /\ fuel.last.engine2State \in {0, 4, 10, 14}

\* one wing's pump over a tick: the state and timer before and after, and the
\* time its timer showed when the tick read it
PumpStep(pumpBefore, pumpAfter, elapsed, timerAfter) ==
  /\ pumpAfter \in {0, 1, 2}
  /\ pumpBefore = 1 /\ pumpAfter /= 1 => pumpAfter = 0 /\ elapsed >= 2100
  /\ pumpBefore = 2 /\ pumpAfter /= 2 => pumpAfter = 0 /\ elapsed >= 2700
  /\ pumpBefore = 0 /\ pumpAfter /= 0 => elapsed >= 1000
  /\ timerAfter = IF pumpBefore /= pumpAfter THEN 0 ELSE elapsed

\* C16: each wing pump state is always 0, 1 or 2; a pump leaves DRAINING only to
\* OFF and only with 2100 ms on its timer, leaves FILLING only to OFF and only
\* with 2700 ms, and leaves OFF only with 1000 ms; the timer restarts at every
\* change of the pump state and at no other time, so it shows the time spent in
\* the state
C16_PumpDwell ==
  /\ fuel.PumpStateLeft \in {0, 1, 2}
  /\ fuel.PumpStateRight \in {0, 1, 2}
  /\ FuelTicked =>
       /\ PumpStep(fuel.last.pre.PumpStateLeft, fuel.PumpStateLeft, fuel.last.elapsedLeft, fuel.timerLeft)
       /\ PumpStep(fuel.last.pre.PumpStateRight, fuel.PumpStateRight, fuel.last.elapsedRight, fuel.timerRight)

\* a tick on which the left pump returned from DRAINING to OFF
C16_Witness ==
  /\ FuelTicked
  /\ fuel.last.pre.PumpStateLeft = 1 /\ fuel.PumpStateLeft = 0
  /\ fuel.last.elapsedLeft >= 2100

----------------------------------------------------------------------------
(* The thrust limits (EngineControl.h updateThrustLimits).  N1 limits are in  *)
(* 0.1 percent (87.0% is 870), simulation time in seconds, so the transition  *)
(* factor 0.2 %/s is 2.                                                       *)

\* the nominal limits limitN1 gives for take-off, go-around, climb and
\* maximum continuous thrust on the day of the flight
NominalTo == 900
NominalGa == 910
NominalClb == 870
NominalMct == 880
\* the FLEX temperatures the crew enters, and what each takes off the limit
FlexTempLow == 40
FlexTempHigh == 60
\* seconds of simulation time between two calls, and the end of the flight followed
ThrustTimeStep == 5
MaxSimulationTime == 90

WAIT_TIME == 10
TRANSITION_TIME == 30
TRANSITION_FACTOR == 2

\* ThrustLimits.h limitN1 for type 0 (TO), 1 (GA), 2 (CLB), 3 (MCT): the nominal
\* limit, lowered by the FLEX temperature for the take-off and go-around limits
limitN1(type, flexTemp) ==
  CASE type = 0 -> NominalTo - 2 * flexTemp
    [] type = 1 -> NominalGa - 2 * flexTemp
    [] type = 2 -> NominalClb
    [] OTHER -> NominalMct

\* isFlexActive after the first test of the FLEX adaption
FlexActivation(isFlexActive, prevThrustLimitType, thrustLimitType, prevFlexTemperature, flexTemp) ==
  IF (prevThrustLimitType /= 3 /\ thrustLimitType = 3) \/ (prevFlexTemperature = 0 /\ flexTemp > 0)
  THEN TRUE
  ELSE IF flexTemp = 0 \/ thrustLimitType = 4 THEN FALSE ELSE isFlexActive

\* the start or the reset of the transition: isTransitionActive,
\* transitionStartTime and transitionFactor after the second test
TransitionStart(th, isFlexActive, thrustLimitType, simulationTime) ==
  IF isFlexActive /\ ~th.isTransitionActive /\ thrustLimitType = 1
  THEN [isTransitionActive |-> TRUE, transitionStartTime |-> simulationTime,
        transitionFactor |-> TRANSITION_FACTOR]
  ELSE IF ~isFlexActive
       THEN [isTransitionActive |-> FALSE, transitionStartTime |-> 0, transitionFactor |-> 0]
       ELSE [isTransitionActive |-> th.isTransitionActive,
             transitionStartTime |-> th.transitionStartTime,
             transitionFactor |-> th.transitionFactor]

\* a ramp that does not wait
deltaThrust_NoWait(tr, simulationTime, clb, flex) ==
  IF tr.isTransitionActive /\ simulationTime - tr.transitionStartTime > 0 /\ clb > flex
  THEN Min(clb - flex, (simulationTime - tr.transitionStartTime) * tr.transitionFactor)
  ELSE 0

\* deltaThrust of a running transition
deltaThrust(tr, simulationTime, clb, flex) ==
  IF tr.isTransitionActive
       /\ Max(0, (simulationTime - tr.transitionStartTime) - WAIT_TIME) > 0 /\ clb > flex
  THEN Min(clb - flex, Max(0, (simulationTime - tr.transitionStartTime) - WAIT_TIME) * tr.transitionFactor)
  ELSE 0

\* updateThrustLimits on the members th at simulationTime, below 16600 ft
\* between Mach 0.08 and 0.37 (machFactorLow 1, machFactor and the altitude
\* factors 0): the members and the published limits it leaves
updateThrustLimitsTick(th, simulationTime, thrustLimitType, flexTemp) ==
  LET to == limitN1(0, 0)
      ga == limitN1(1, 0)
      flex_to == IF flexTemp > 0 THEN limitN1(0, flexTemp) ELSE 0
      flex_ga == IF flexTemp > 0 THEN limitN1(1, flexTemp) ELSE 0
      clb == limitN1(2, 0)
      mct == limitN1(3, 0)
      toga == to + (ga - to)
      flex == flex_to + (flex_ga - flex_to)
      active1 == FlexActivation(th.isFlexActive, th.prevThrustLimitType, thrustLimitType, th.prevFlexTemperature, flexTemp)
      tr == TransitionStart(th, active1, thrustLimitType, simulationTime)
      delta == deltaThrust(tr, simulationTime, clb, flex)
      reached == tr.isTransitionActive /\ flex + delta >= clb
      active2 == active1 /\ ~reached
  IN  [simulationTime |-> simulationTime,
       isFlexActive |-> active2,
       prevThrustLimitType |-> thrustLimitType,
       prevFlexTemperature |-> flexTemp,
       isTransitionActive |-> tr.isTransitionActive /\ ~reached,
       transitionFactor |-> tr.transitionFactor,
       transitionStartTime |-> tr.transitionStartTime,
       ThrustLimitToga |-> IF mct > toga THEN toga ELSE toga,
       ThrustLimitFlex |-> flex,
       ThrustLimitClimb |-> IF active2 THEN Min(clb, flex) + delta ELSE clb,
       ThrustLimitMct |-> IF mct > toga THEN toga ELSE mct]

\* no FLEX-to-CLB scenario is being followed
NoScenario == [at |-> -1, fresh |-> FALSE]

\* the scenario followed after a tick: it opens on the tick the thrust-limit
\* type leaves FLEX with FLEX active, an unchanged FLEX temperature and the
\* FLEX limit below nominal CLB (fresh: no transition was running), and it is
\* followed for as long as both inputs stay what they were on that tick
ScenarioAfter(th, simulationTime, thrustLimitType, flexTemp) ==
  IF th.isFlexActive /\ th.prevThrustLimitType = 3 /\ thrustLimitType /= 3
       /\ flexTemp = th.prevFlexTemperature /\ flexTemp > 0
       /\ limitN1(1, flexTemp) < limitN1(2, 0)
  THEN [at |-> simulationTime, fresh |-> ~th.isTransitionActive]
  ELSE IF thrustLimitType = th.prevThrustLimitType /\ flexTemp = th.prevFlexTemperature
       THEN th.scenario
       ELSE NoScenario

FlexTemps == {0, FlexTempLow, FlexTempHigh}

ThrustLimitTypes == 0 .. 4

InitThrust ==
  /\ EngineParked
  /\ dwork = Parked /\ lookup = Parked /\ converter = Parked /\ preset = Parked
  /\ decoder = Parked
  /\ fuel = Parked
  /\ chart = Parked
  /\ thrust = [simulationTime |-> 0,
               isFlexActive |-> FALSE,
               prevThrustLimitType |-> 0,
               prevFlexTemperature |-> 0,
               isTransitionActive |-> FALSE,
               transitionFactor |-> 0,
               transitionStartTime |-> 0,
               ThrustLimitToga |-> 0,
               ThrustLimitFlex |-> 0,
               ThrustLimitClimb |-> 0,
               ThrustLimitMct |-> 0,
               scenario |-> NoScenario]

updateThrustLimits ==
  /\ thrust.simulationTime + ThrustTimeStep <= MaxSimulationTime
  /\ \E thrustLimitType \in ThrustLimitTypes, flexTemp \in FlexTemps :
       \E simulationTime \in {thrust.simulationTime + ThrustTimeStep} :
          thrust' = [f \in DOMAIN thrust |->
                       IF f = "scenario"
                       THEN ScenarioAfter(thrust, simulationTime, thrustLimitType, flexTemp)
                       ELSE updateThrustLimitsTick(thrust, simulationTime, thrustLimitType, flexTemp)[f]]
  /\ UNCHANGED <<engineVars, decoder, fuel, chart, dwork, lookup, converter, preset>>

NextThrust == updateThrustLimits

SpecThrust == InitThrust /\ [][NextThrust]_vars

\* what the scenario's sentence says of the published limits at time t for a
\* change at time T
RampAsStated(th) ==
  LET t == th.simulationTime
      T == th.scenario.at
      flex == th.ThrustLimitFlex
      ramp == flex + 2 * (t - T - 10)
  IN  IF t <= T + 10
      THEN th.ThrustLimitClimb = flex
      ELSE /\ th.ThrustLimitClimb = Min(NominalClb, ramp)
           /\ th.ThrustLimitClimb <= NominalClb
           /\ ramp >= NominalClb => ~th.isFlexActive /\ ~th.isTransitionActive

\* C17 (as stated): with FLEX active and the FLEX limit below nominal CLB, from
\* the tick at time T on which the thrust-limit type changes away from FLEX the
\* published CLB limit is the FLEX limit until T+10 s, then
\* FLEX + 0.2*(t - T - 10) capped at nominal CLB, and once it is nominal CLB
\* isFlexActive and isTransitionActive are false and stay false.
C17_RampAfterLeavingFlex ==
  thrust.scenario.at >= 0 => RampAsStated(thrust)

\* C17 (amended): the same, for a change of the thrust-limit type from FLEX to
\* CLB (type 1) made while no transition is running, and for as long as the
\* type and the FLEX temperature stay what they were on that tick.
C17_RampAfterFlexToClb ==
  (thrust.scenario.at >= 0 /\ thrust.scenario.fresh /\ thrust.prevThrustLimitType = 1)
    => RampAsStated(thrust)

\* C17 witness: a tick more than 10 s after a change from FLEX to CLB, the CLB
\* limit on the ramp between the FLEX limit and nominal CLB
C17_Witness ==
  /\ thrust.scenario.at >= 0
  /\ thrust.scenario.fresh
  /\ thrust.prevThrustLimitType = 1
  /\ thrust.simulationTime > thrust.scenario.at + 10
  /\ thrust.isFlexActive
  /\ thrust.ThrustLimitClimb > thrust.ThrustLimitFlex
  /\ thrust.ThrustLimitClimb < NominalClb

\* C18: a started FLEX-to-CLB transition is over, isFlexActive false, no later
\* than 40 s (the 10 s wait and the 30 s window) after its start, whatever the
\* gap between the FLEX limit and nominal CLB.
C18_TransitionOverWithinWindow ==
  (thrust.scenario.at >= 0 /\ thrust.scenario.fresh /\ thrust.prevThrustLimitType = 1
     /\ thrust.simulationTime >= thrust.scenario.at + WAIT_TIME + TRANSITION_TIME)
    => ~thrust.isFlexActive

----------------------------------------------------------------------------
(* The left/right selector of the autopilot laws (AutopilotLaws.cpp          *)
(* AutopilotLaws_Chart on the c10 work area, AutopilotLaws_Chart_h on c15).  *)

IN_any == 1
IN_left == 2
IN_right == 3
COMMIT_LOW == 10
COMMIT_HIGH == 20

\* the default output: left when strictly smaller in magnitude, else right
SmallerMagnitude(right, left) == IF Abs(left) < Abs(right) THEN left ELSE right

\* state any with the left input put out on a tie
ChartAny_TieLeft(right, left, use_short_path) ==
  [is_c |-> IN_any, out |-> IF Abs(left) <= Abs(right) THEN left ELSE right]

\* case IN_any: the state and the output
ChartAny(right, left, use_short_path) ==
  IF ~use_short_path /\ Abs(right) < Abs(left) /\ Abs(right) >= COMMIT_LOW /\ Abs(right) <= COMMIT_HIGH
  THEN [is_c |-> IN_right, out |-> right]
  ELSE IF ~use_short_path /\ Abs(left) < Abs(right) /\ Abs(left) >= COMMIT_LOW /\ Abs(left) <= COMMIT_HIGH
       THEN [is_c |-> IN_left, out |-> left]
       ELSE [is_c |-> IN_any, out |-> SmallerMagnitude(right, left)]

\* a lock given up only when both magnitudes are below the band
ChartLocked_BothBelow(is_c, right, left, use_short_path) ==
  IF use_short_path \/ (Abs(right) < COMMIT_LOW /\ Abs(left) < COMMIT_LOW)
  THEN [is_c |-> IN_any, out |-> SmallerMagnitude(right, left)]
  ELSE [is_c |-> is_c, out |-> IF is_c = IN_left THEN left ELSE right]

\* case IN_left and the default case (IN_right): the state and the output
ChartLocked(is_c, right, left, use_short_path) ==
  IF use_short_path \/ Abs(right) < COMMIT_LOW \/ Abs(left) < COMMIT_LOW
  THEN [is_c |-> IN_any, out |-> SmallerMagnitude(right, left)]
  ELSE [is_c |-> is_c, out |-> IF is_c = IN_left THEN left ELSE right]

\* one call on the work area dw: the work area and the output it leaves
ChartLogic(dw, right, left, use_short_path) ==
  IF dw.is_active = 0
  THEN [is_active |-> 1, is_c |-> IN_any, out |-> SmallerMagnitude(right, left)]
  ELSE LET r == IF dw.is_c = IN_any
                THEN ChartAny(right, left, use_short_path)
                ELSE ChartLocked(dw.is_c, right, left, use_short_path)
       IN  [is_active |-> 1, is_c |-> r.is_c, out |-> r.out]

\* the work area before the first call
ChartDW0 == [is_active |-> 0, is_c |-> 0]

\* the two inputs offered: either sign, below, on the edges of, inside and
\* above the commit band
ChartInputs == {-15, -9, 9, 10, 15, 20, 21}

NoChartCall == [called |-> "none", pre |-> ChartDW0, post |-> ChartDW0, right |-> 0, left |-> 0, use_short_path |-> FALSE, out |-> 0]

InitChart ==
  /\ EngineParked
  /\ dwork = Parked /\ lookup = Parked /\ converter = Parked /\ preset = Parked
  /\ decoder = Parked
  /\ fuel = Parked
  /\ thrust = Parked
  /\ chart = [c10 |-> ChartDW0, c15 |-> ChartDW0, last |-> NoChartCall]

\* the chart after a call on work area which
ChartCall(which, right, left, use_short_path) ==
  LET r == ChartLogic(chart[which], right, left, use_short_path)
      post == [is_active |-> r.is_active, is_c |-> r.is_c]
  IN  [chart EXCEPT ![which] = post,
                    !.last = [called |-> which, pre |-> chart[which], post |-> post,
                              right |-> right, left |-> left,
                              use_short_path |-> use_short_path, out |-> r.out]]

AutopilotLaws_Chart ==
  /\ \E right \in ChartInputs, left \in ChartInputs, rtu_use_short_path \in BOOLEAN :
       chart' = ChartCall("c10", right, left, rtu_use_short_path)
  /\ UNCHANGED <<engineVars, decoder, fuel, thrust, dwork, lookup, converter, preset>>

AutopilotLaws_Chart_h ==
  /\ \E right \in ChartInputs, left \in ChartInputs, rtu_use_short_path \in {0, 1} :
       chart' = ChartCall("c15", right, left, rtu_use_short_path /= 0)
  /\ UNCHANGED <<engineVars, decoder, fuel, thrust, dwork, lookup, converter, preset>>

NextChart == AutopilotLaws_Chart \/ AutopilotLaws_Chart_h

SpecChart == InitChart /\ [][NextChart]_vars

ChartWasLocked == chart.last.called /= "none" /\ chart.last.pre.is_c \in {IN_left, IN_right}

ChartLockedInput == IF chart.last.pre.is_c = IN_left THEN chart.last.left ELSE chart.last.right

\* what a call made in a lock must have done, release telling when the lock is given up
LockKept(release) ==
  /\ ~release => (chart.last.out = ChartLockedInput /\ chart.last.post.is_c = chart.last.pre.is_c)
  /\ chart.last.post.is_c \in {chart.last.pre.is_c, IN_any}

\* C19 (as stated): a call made in a lock puts out the locked side's input and
\* keeps the lock unless use-short-path is asserted or both magnitudes are below
\* 10 (so also while only one of them is), and never leaves the selector in the
\* opposite lock.
C19_LockHeldUntilBothBelow ==
  ChartWasLocked =>
    LockKept(chart.last.use_short_path \/ (Abs(chart.last.right) < 10 /\ Abs(chart.last.left) < 10))

\* C19 (amended): a call made in a lock puts out the locked side's input and
\* keeps the lock unless use-short-path is asserted or either magnitude is below
\* 10; then it returns to ANY with the input of smaller magnitude (right on a
\* tie); it never leaves the selector in the opposite lock.
C19_LockHeldUntilEitherBelow ==
  ChartWasLocked =>
    LET release == chart.last.use_short_path \/ Abs(chart.last.right) < 10 \/ Abs(chart.last.left) < 10
    IN  /\ LockKept(release)
        /\ release => /\ chart.last.post.is_c = IN_any
                      /\ chart.last.out = SmallerMagnitude(chart.last.right, chart.last.left)

\* C19 witness: a call in a lock with use-short-path off and only the other
\* side's magnitude below 10
C19_Witness ==
  /\ ChartWasLocked
  /\ ~chart.last.use_short_path
  /\ Abs(ChartLockedInput) >= 10
  /\ Abs(chart.last.right) < 10 \/ Abs(chart.last.left) < 10
  /\ chart.last.post.is_c = IN_any

\* C20: a call made in state ANY, the first call included, puts out the input
\* of smaller magnitude, the right one on a tie; a call leaves the selector in
\* a lock it was not in only with use-short-path off and that side's magnitude
\* strictly the smaller and in [10, 20]; every call puts out one of its two
\* inputs.
C20_AnySelectsSmaller ==
  chart.last.called /= "none" =>
    /\ chart.last.out \in {chart.last.right, chart.last.left}
    /\ chart.last.pre.is_c \in {0, IN_any}
         => chart.last.out = (IF Abs(chart.last.left) < Abs(chart.last.right) THEN chart.last.left ELSE chart.last.right)
    /\ (chart.last.post.is_c = IN_right /\ chart.last.pre.is_c /= IN_right)
         => /\ ~chart.last.use_short_path
            /\ Abs(chart.last.right) < Abs(chart.last.left)
            /\ Abs(chart.last.right) >= 10 /\ Abs(chart.last.right) <= 20
    /\ (chart.last.post.is_c = IN_left /\ chart.last.pre.is_c /= IN_left)
         => /\ ~chart.last.use_short_path
            /\ Abs(chart.last.left) < Abs(chart.last.right)
            /\ Abs(chart.last.left) >= 10 /\ Abs(chart.last.left) <= 20

\* C20 witness: a call in state ANY on two inputs of equal magnitude and
\* opposite sign
C20_Witness ==
  /\ chart.last.called /= "none"
  /\ chart.last.pre.is_c = IN_any
  /\ chart.last.left = -chart.last.right
  /\ chart.last.out = chart.last.right

----------------------------------------------------------------------------
(* The rate limiters of the laws (AutopilotLaws.cpp AutopilotLaws_RateLimiter *)
(* and AutopilotLaws_RateLimiter_n, Autothrust.cpp Autothrust_RateLimiter).   *)
(* Signals, rates and the sample time are whole numbers.                      *)

\* a limiter that always moves by the whole allowed delta
RateLimiterDelta_WholeStep(u, pY, up, lo, Ts) == IF u > pY THEN Abs(up) * Ts ELSE IF u < pY THEN -Abs(lo) * Ts ELSE 0

\* a limiter that does not clamp a rise
RateLimiterDelta_RiseUnclamped(u, pY, up, lo, Ts) == Max(u - pY, -Abs(lo) * Ts)

\* fmax(fmin(u - pY, |up| * Ts), -|lo| * Ts)
RateLimiterDelta(u, pY, up, lo, Ts) == Max(Min(u - pY, Abs(up) * Ts), -Abs(lo) * Ts)

\* the same delta as Autothrust_RateLimiter computes it, with u0 and u1
AutothrustRateLimiterDelta(u, pY, up, lo, Ts) ==
  LET u0 == u - pY
      u1 == IF u0 < Abs(up) * Ts THEN u0 ELSE Abs(up) * Ts
      u0b == -Abs(lo) * Ts
  IN  IF u1 > u0b THEN u1 ELSE u0b

\* pY as the call finds it, set to init on the first call
RateLimiterEntry(dw, init) == IF ~dw.pY_not_empty THEN init ELSE dw.pY

\* the work area of a limiter before its first call
RateLimiterDW0 == [pY |-> 0, pY_not_empty |-> FALSE]

\* inputs: the signal jumps between the ends of its range
RateSignals == {-4, 0, 4}
RateLimits == {-2, 1}
RateSampleTimes == {0, 1, 2}
RateInit == 1

NoRateCall == [called |-> "none", afterFirst |-> FALSE, previous |-> 0, out |-> 0, up |-> 0, lo |-> 0, Ts |-> 0]

InitRateLimiter ==
  /\ EngineParked
  /\ decoder = Parked /\ fuel = Parked /\ thrust = Parked /\ chart = Parked
  /\ lookup = Parked /\ converter = Parked /\ preset = Parked
  /\ dwork = [sf_RateLimiter |-> RateLimiterDW0, sf_RateLimiter_n |-> RateLimiterDW0,
              sf_RateLimiter_b |-> RateLimiterDW0, last |-> NoRateCall]

\* the work areas after a call on limiter which that adds delta to its pY
RateLimiterCall(which, delta, up, lo, Ts) ==
  LET pY == RateLimiterEntry(dwork[which], RateInit) + delta
  IN  [dwork EXCEPT ![which] = [pY |-> pY, pY_not_empty |-> TRUE],
                    !.last = [called |-> which, afterFirst |-> dwork[which].pY_not_empty,
                              previous |-> dwork[which].pY, out |-> pY,
                              up |-> up, lo |-> lo, Ts |-> Ts]]

AutopilotLaws_RateLimiter ==
  /\ \E u \in RateSignals, up \in RateLimits, lo \in RateLimits, Ts \in RateSampleTimes :
       dwork' = RateLimiterCall("sf_RateLimiter", RateLimiterDelta(u, RateLimiterEntry(dwork.sf_RateLimiter, RateInit), up, lo, Ts), up, lo, Ts)
  /\ UNCHANGED <<engineVars, decoder, fuel, thrust, chart, lookup, converter, preset>>

AutopilotLaws_RateLimiter_n ==
  /\ \E u \in BOOLEAN, up \in RateLimits, lo \in RateLimits, Ts \in RateSampleTimes :
       dwork' = RateLimiterCall("sf_RateLimiter_n", RateLimiterDelta(IF u THEN 1 ELSE 0, RateLimiterEntry(dwork.sf_RateLimiter_n, RateInit), up, lo, Ts), up, lo, Ts)
  /\ UNCHANGED <<engineVars, decoder, fuel, thrust, chart, lookup, converter, preset>>

Autothrust_RateLimiter ==
  /\ \E u \in RateSignals, up \in RateLimits, lo \in RateLimits, Ts \in RateSampleTimes :
       dwork' = RateLimiterCall("sf_RateLimiter_b", AutothrustRateLimiterDelta(u, RateLimiterEntry(dwork.sf_RateLimiter_b, RateInit), up, lo, Ts), up, lo, Ts)
  /\ UNCHANGED <<engineVars, decoder, fuel, thrust, chart, lookup, converter, preset>>

NextRateLimiter == AutopilotLaws_RateLimiter \/ AutopilotLaws_RateLimiter_n \/ Autothrust_RateLimiter

SpecRateLimiter == InitRateLimiter /\ [][NextRateLimiter]_vars

\* C21: every output of a rate limiter after its first differs from its
\* previous output by a delta within [-|lo|*dt, +|up|*dt], so by at most
\* max(|up|, |lo|)*dt in magnitude, however far the input jumps.
C21_RateBounded ==
  dwork.last.afterFirst =>
    LET delta == dwork.last.out - dwork.last.previous
    IN  /\ delta >= -Abs(dwork.last.lo) * dwork.last.Ts
        /\ delta <= Abs(dwork.last.up) * dwork.last.Ts
        /\ Abs(delta) <= Max(Abs(dwork.last.up), Abs(dwork.last.lo)) * dwork.last.Ts

\* C21 witness: a later call of a limiter whose output rose by the whole
\* |up|*dt towards an input further away
C21_Witness ==
  /\ dwork.last.afterFirst
  /\ dwork.last.Ts > 0
  /\ dwork.last.out - dwork.last.previous = Abs(dwork.last.up) * dwork.last.Ts
  /\ dwork.last.out < 4

----------------------------------------------------------------------------
(* The filters of the laws (AutopilotLaws.cpp AutopilotLaws_LagFilter,        *)
(* AutopilotLaws_WashoutFilter, AutopilotLaws_LeadLagFilter).  A real_T is an *)
(* exact fraction <<numerator, denominator>> in lowest terms with a positive  *)
(* denominator; the rounding of the double arithmetic is not followed.  A     *)
(* division by zero gives NonFinite, which every operation hands on.          *)

RECURSIVE GCD(_, _)
GCD(a, b) == IF b = 0 THEN a ELSE GCD(b, a % b)

NonFinite == <<0, 0>>

IsFinite(x) == x[2] /= 0

\* the fraction n/d in lowest terms
Frac(n, d) ==
  IF d = 0 THEN NonFinite
  ELSE LET g == GCD(Abs(n), Abs(d))
       IN  IF d < 0 THEN <<(-n) \div g, (-d) \div g>> ELSE <<n \div g, d \div g>>

RAdd(x, y) == IF IsFinite(x) /\ IsFinite(y) THEN Frac(x[1] * y[2] + y[1] * x[2], x[2] * y[2]) ELSE NonFinite

RSub(x, y) == IF IsFinite(x) /\ IsFinite(y) THEN Frac(x[1] * y[2] - y[1] * x[2], x[2] * y[2]) ELSE NonFinite

RMul(x, y) == IF IsFinite(x) /\ IsFinite(y) THEN Frac(x[1] * y[1], x[2] * y[2]) ELSE NonFinite

RDiv(x, y) == IF IsFinite(x) /\ IsFinite(y) THEN Frac(x[1] * y[2], x[2] * y[1]) ELSE NonFinite

Two == <<2, 1>>

\* the first-call latch of the three filters: pU and pY as the step finds them
FilterEntry(dw, U) ==
  IF ~dw.pY_not_empty \/ ~dw.pU_not_empty
  THEN [pU |-> U, pU_not_empty |-> TRUE, pY |-> U, pY_not_empty |-> TRUE]
  ELSE [pU |-> dw.pU, pU_not_empty |-> TRUE, pY |-> dw.pY, pY_not_empty |-> TRUE]

\* a lag filter with the gain 2/(dt*C1 + 2) on its inputs
LagFilterY_WashoutGain(U, C1, dt, pU, pY) ==
  LET denom_tmp == RMul(dt, C1)
      ca == RDiv(Two, RAdd(denom_tmp, Two))
  IN  RAdd(RMul(RDiv(RSub(Two, denom_tmp), RAdd(denom_tmp, Two)), pY),
           RAdd(RMul(U, ca), RMul(pU, ca)))

\* rty_Y of AutopilotLaws_LagFilter
LagFilterY(U, C1, dt, pU, pY) ==
  LET denom_tmp == RMul(dt, C1)
      ca == RDiv(denom_tmp, RAdd(denom_tmp, Two))
  IN  RAdd(RMul(RDiv(RSub(Two, denom_tmp), RAdd(denom_tmp, Two)), pY),
           RAdd(RMul(U, ca), RMul(pU, ca)))

\* a washout filter that adds the previous input as the lag filter does
WashoutFilterY_Adds(U, C1, dt, pU, pY) ==
  LET denom_tmp == RMul(dt, C1)
      ca == RDiv(denom_tmp, RAdd(denom_tmp, Two))
  IN  RAdd(RMul(RDiv(RSub(Two, denom_tmp), RAdd(denom_tmp, Two)), pY),
           RAdd(RMul(U, ca), RMul(pU, ca)))

\* rty_Y of AutopilotLaws_WashoutFilter
WashoutFilterY(U, C1, dt, pU, pY) ==
  LET denom_tmp == RMul(dt, C1)
      ca == RDiv(Two, RAdd(denom_tmp, Two))
  IN  RAdd(RMul(RDiv(RSub(Two, denom_tmp), RAdd(denom_tmp, Two)), pY),
           RSub(RMul(U, ca), RMul(pU, ca)))

\* rty_Y of AutopilotLaws_LeadLagFilter, C = <<C1, C2, C3, C4>>
LeadLagFilterY(U, C, dt, pU, pY) ==
  LET denom_tmp == RMul(dt, C[4])
      denom == RAdd(RMul(Two, C[3]), denom_tmp)
      tmp == RMul(dt, C[2])
  IN  RAdd(RAdd(RMul(RDiv(RAdd(RMul(Two, C[1]), tmp), denom), U),
                RMul(RDiv(RSub(tmp, RMul(Two, C[1])), denom), pU)),
           RMul(RDiv(RSub(RMul(Two, C[3]), denom_tmp), denom), pY))

\* the calls followed on one filter
MaxFilterCalls == 3

FilterBlocks == {"LagFilter", "WashoutFilter", "LeadLagFilter"}

\* inputs: two signals, coefficients and sample times that make dt*C1 zero,
\* positive, 2 and -2
FilterSignals == {<<3, 1>>, <<-1, 1>>}
FilterC1 == {<<0, 1>>, <<1, 1>>, <<-4, 1>>}
FilterDt == {<<0, 1>>, <<1, 2>>, <<2, 1>>}
\* lead-lag coefficients C1..C4: C2 = C4, C2 /= C4, and 2*C3 + dt*C4 = 0 at dt 1/2
LeadLagCoefficients == {<< <<1, 1>>, <<1, 1>>, <<1, 1>>, <<1, 1>> >>, << <<1, 1>>, <<2, 1>>, <<1, 1>>, <<1, 1>> >>, << <<0, 1>>, <<1, 1>>, <<-1, 1>>, <<4, 1>> >>}

InitFilter ==
  /\ EngineParked
  /\ decoder = Parked /\ fuel = Parked /\ thrust = Parked /\ chart = Parked
  /\ lookup = Parked /\ converter = Parked /\ preset = Parked
  /\ \E block \in FilterBlocks :
       dwork = [block |-> block,
                pU |-> <<0, 1>>, pU_not_empty |-> FALSE, pY |-> <<0, 1>>, pY_not_empty |-> FALSE,
                calls |-> 0, u0 |-> <<0, 1>>, held |-> TRUE, regular |-> TRUE,
                U |-> <<0, 1>>, C |-> <<>>, dt |-> <<0, 1>>, out |-> <<0, 1>>]

\* the work area after a step with input U that puts out Y; regular tells that
\* no denominator of the step was zero
FilterCall(U, C, dt, Y, regular) ==
  [dwork EXCEPT !.pU = U, !.pU_not_empty = TRUE, !.pY = Y, !.pY_not_empty = TRUE,
                !.calls = dwork.calls + 1,
                !.u0 = IF dwork.calls = 0 THEN U ELSE dwork.u0,
                !.held = dwork.held /\ (dwork.calls = 0 \/ U = dwork.u0),
                !.regular = dwork.regular /\ regular,
                !.U = U, !.C = C, !.dt = dt, !.out = Y]

AutopilotLaws_LagFilter ==
  /\ dwork.block = "LagFilter"
  /\ dwork.calls < MaxFilterCalls
  /\ \E U \in FilterSignals, C1 \in FilterC1, dt \in FilterDt :
       \E dw \in {FilterEntry(dwork, U)} :
          dwork' = FilterCall(U, <<C1>>, dt, LagFilterY(U, C1, dt, dw.pU, dw.pY), RAdd(RMul(dt, C1), Two) /= <<0, 1>>)
  /\ UNCHANGED <<engineVars, decoder, fuel, thrust, chart, lookup, converter, preset>>

AutopilotLaws_WashoutFilter ==
  /\ dwork.block = "WashoutFilter"
  /\ dwork.calls < MaxFilterCalls
  /\ \E U \in FilterSignals, C1 \in FilterC1, dt \in FilterDt :
       \E dw \in {FilterEntry(dwork, U)} :
          dwork' = FilterCall(U, <<C1>>, dt, WashoutFilterY(U, C1, dt, dw.pU, dw.pY), RAdd(RMul(dt, C1), Two) /= <<0, 1>>)
  /\ UNCHANGED <<engineVars, decoder, fuel, thrust, chart, lookup, converter, preset>>

AutopilotLaws_LeadLagFilter ==
  /\ dwork.block = "LeadLagFilter"
  /\ dwork.calls < MaxFilterCalls
  /\ \E U \in FilterSignals, C \in LeadLagCoefficients, dt \in FilterDt :
       \E dw \in {FilterEntry(dwork, U)} :
          dwork' = FilterCall(U, C, dt, LeadLagFilterY(U, C, dt, dw.pU, dw.pY), RAdd(RMul(Two, C[3]), RMul(dt, C[4])) /= <<0, 1>>)
  /\ UNCHANGED <<engineVars, decoder, fuel, thrust, chart, lookup, converter, preset>>

NextFilter == AutopilotLaws_LagFilter \/ AutopilotLaws_WashoutFilter \/ AutopilotLaws_LeadLagFilter

SpecFilter == InitFilter /\ [][NextFilter]_vars

FirstFilterCall(block) == dwork.block = block /\ dwork.calls = 1

\* C22 (as stated): the first step of a Washout filter and of a Lead-Lag
\* filter with input u0 returns u0, whatever the coefficients C1..C4 and dt.
C22_FirstStepReturnsInput ==
  (FirstFilterCall("WashoutFilter") \/ FirstFilterCall("LeadLagFilter")) => dwork.out = dwork.u0

\* C22 (amended): with non-zero denominators the first step of a Washout
\* filter returns (2 - dt*C1)/(dt*C1 + 2) * u0 and the first step of a Lead-Lag
\* filter returns (2*C3 + dt*(2*C2 - C4))/(2*C3 + dt*C4) * u0; this is u0 for
\* the Washout filter when dt*C1 = 0 and for the Lead-Lag filter when
\* dt*C2 = dt*C4.
C22_FirstStepScalesInput ==
  /\ (FirstFilterCall("WashoutFilter") /\ dwork.regular)
       => /\ dwork.out = RMul(RDiv(RSub(Two, RMul(dwork.dt, dwork.C[1])), RAdd(RMul(dwork.dt, dwork.C[1]), Two)), dwork.u0)
          /\ RMul(dwork.dt, dwork.C[1]) = <<0, 1>> => dwork.out = dwork.u0
  /\ (FirstFilterCall("LeadLagFilter") /\ dwork.regular)
       => /\ dwork.out = RMul(RDiv(RAdd(RMul(Two, dwork.C[3]), RMul(dwork.dt, RSub(RMul(Two, dwork.C[2]), dwork.C[4]))),
                                      RAdd(RMul(Two, dwork.C[3]), RMul(dwork.dt, dwork.C[4]))), dwork.u0)
          /\ RMul(dwork.dt, dwork.C[2]) = RMul(dwork.dt, dwork.C[4]) => dwork.out = dwork.u0

\* C22 witness: a first step of a Washout filter with dt*C1 = 1/2 that did not
\* return its input
C22_Witness ==
  /\ FirstFilterCall("WashoutFilter")
  /\ dwork.regular
  /\ RMul(dwork.dt, dwork.C[1]) = <<1, 2>>
  /\ dwork.out /= dwork.u0

----------------------------------------------------------------------------
(* The idle corrected-N1 lookup of the engine model (Tables.h iCN1 over       *)
(* table1502).  Table cells, CN2 and CN1 are in 0.01 percent, Mach in 0.01.   *)

\* table1502, columns 0 (CN2) and 1..3 (corrected N1), rounded to 0.01
Table1502 ==
  << <<1718, 0, 0, 0>>, <<2077, 213, 213, 213>>, <<2455, 281, 281, 281>>,
     <<5382, 1437, 1437, 1437>>, <<6600, 2200, 2200, 2200>>, <<7124, 2651, 2651, 2651>>,
     <<7561, 3204, 3204, 3204>>, <<8108, 4178, 4178, 4178>>, <<8454, 5200, 5200, 5200>>,
     <<8836, 6628, 6628, 6628>>, <<9110, 7851, 7851, 7851>>, <<9474, 8667, 8667, 8667>>,
     <<11000, 10500, 10500, 10500>> >>

TableRows == 13

\* what a read outside the array t[13][4] may return
StrayCells == {0, 5000, 20000}

\* the values table1502(i, j) may return: the cell, or for a row outside
\* 0..12 whatever lies next to the array
table1502(i, j) == IF i >= 0 /\ i < TableRows THEN {Table1502[i + 1][j + 1]} ELSE StrayCells

\* the loop of iCN1: the first row from i on whose CN2 is above cn2, 13 if none
RECURSIVE iCN1Row(_, _)
iCN1Row(i, cn2) ==
  IF i < TableRows /\ ~(Table1502[i + 1][1] > cn2) THEN iCN1Row(i + 1, cn2) ELSE i

\* linear interpolation between (x0, y0) and (x1, y1)
interpolate(x, x0, x1, y0, y1) == y0 + ((x - x0) * (y1 - y0)) \div (x1 - x0)

MACH_LOW == 20
MACH_HIGH == 90

\* the idle CN2 values iCN2 hands to the lookup, from below the first
\* breakpoint to above the last, the breakpoints among them
CN2Step == 250
CN2Values == {1500 + k * CN2Step : k \in 0 .. 40} \cup {Table1502[r][1] : r \in 1 .. TableRows}
MachValues == {10, 55}

NoLookup == [called |-> FALSE, cn2 |-> 0, mach |-> 0, i |-> 0, rows |-> {}, cn1 |-> 0]

InitLookup ==
  /\ EngineParked
  /\ decoder = Parked /\ fuel = Parked /\ thrust = Parked /\ chart = Parked
  /\ dwork = Parked /\ converter = Parked /\ preset = Parked
  /\ lookup = NoLookup

\* one call of iCN1 for the idle CN2 cn2 at Mach mach
iCN1 ==
  /\ \E cn2 \in CN2Values, mach \in MachValues :
       \E i \in {iCN1Row(0, cn2)} :
         \E cn2lo \in table1502(i - 1, 0), cn2hi \in table1502(i, 0),
            cn1lolo \in table1502(i - 1, 1), cn1hilo \in table1502(i, 1),
            cn1lohi \in table1502(i - 1, 3), cn1hihi \in table1502(i, 3) :
           /\ cn2hi /= cn2lo
           /\ lookup' = [called |-> TRUE, cn2 |-> cn2, mach |-> mach, i |-> i,
                         rows |-> {i - 1, i},
                         cn1 |-> IF mach <= MACH_LOW
                                 THEN interpolate(cn2, cn2lo, cn2hi, cn1lolo, cn1hilo)
                                 ELSE interpolate(mach, MACH_LOW, MACH_HIGH,
                                                  interpolate(cn2, cn2lo, cn2hi, cn1lolo, cn1hilo),
                                                  interpolate(cn2, cn2lo, cn2hi, cn1lohi, cn1hihi))]
  /\ UNCHANGED <<engineVars, decoder, fuel, thrust, chart, dwork, converter, preset>>

NextLookup == iCN1

SpecLookup == InitLookup /\ [][NextLookup]_vars

\* C24: the lookup clamps at the table edges: below the first breakpoint it
\* returns the first row's corrected N1, at or above the last breakpoint the
\* last row's, and every row it reads is one of the rows 0..12.
C24_LookupClamps ==
  lookup.called =>
    /\ lookup.rows \subseteq 0 .. 12
    /\ lookup.cn2 < Table1502[1][1] => lookup.cn1 = Table1502[1][2]
    /\ lookup.cn2 >= Table1502[TableRows][1] => lookup.cn1 = Table1502[TableRows][2]

----------------------------------------------------------------------------
(* The voters (AutopilotLaws.cpp AutopilotLaws_Voter1, and the speed voter    *)
(* written out in Autothrust.cpp step).                                       *)

\* a voter that falls back on its first input
Voter1Index_FirstOnFall(u1, u2, u3) ==
  IF u1 < u2
  THEN IF u2 < u3 THEN 1 ELSE IF u1 < u3 THEN 2 ELSE 0
  ELSE IF u1 < u3 THEN 0 ELSE IF u2 < u3 THEN 2 ELSE 0

\* rtu_u1_0, the index into v[3] that AutopilotLaws_Voter1 selects
Voter1Index(u1, u2, u3) ==
  IF u1 < u2
  THEN IF u2 < u3 THEN 1 ELSE IF u1 < u3 THEN 2 ELSE 0
  ELSE IF u1 < u3 THEN 0 ELSE IF u2 < u3 THEN 2 ELSE 1

\* i, the index into x[3] that the Autothrust step selects among V_LS, V_c and V_MAX
AutothrustVoterIndex(V_LS_kn, V_c_kn, V_MAX_kn) ==
  IF V_LS_kn < V_c_kn
  THEN IF V_c_kn < V_MAX_kn THEN 1 ELSE IF V_LS_kn < V_MAX_kn THEN 2 ELSE 0
  ELSE IF V_LS_kn < V_MAX_kn THEN 0 ELSE IF V_c_kn < V_MAX_kn THEN 2 ELSE 1

VoterInputs == {-2, 0, 1, 3, 7}

NoVote == [called |-> "none", v |-> <<0, 0, 0>>, Y |-> 0]

InitVoter ==
  /\ EngineParked
  /\ decoder = Parked /\ fuel = Parked /\ thrust = Parked /\ chart = Parked
  /\ lookup = Parked /\ converter = Parked /\ preset = Parked
  /\ dwork = NoVote

AutopilotLaws_Voter1 ==
  /\ \E u1 \in VoterInputs, u2 \in VoterInputs, u3 \in VoterInputs :
       dwork' = [called |-> "Voter1", v |-> <<u1, u2, u3>>, Y |-> <<u1, u2, u3>>[Voter1Index(u1, u2, u3) + 1]]
  /\ UNCHANGED <<engineVars, decoder, fuel, thrust, chart, lookup, converter, preset>>

AutothrustSpeedVoter ==
  /\ \E V_LS_kn \in VoterInputs, V_c_kn \in VoterInputs, V_MAX_kn \in VoterInputs :
       dwork' = [called |-> "Autothrust", v |-> <<V_LS_kn, V_c_kn, V_MAX_kn>>,
                 Y |-> <<V_LS_kn, V_c_kn, V_MAX_kn>>[AutothrustVoterIndex(V_LS_kn, V_c_kn, V_MAX_kn) + 1]]
  /\ UNCHANGED <<engineVars, decoder, fuel, thrust, chart, lookup, converter, preset>>

NextVoter == AutopilotLaws_Voter1 \/ AutothrustSpeedVoter

SpecVoter == InitVoter /\ [][NextVoter]_vars

\* the orderings of three inputs
Orderings == {<<1, 2, 3>>, <<1, 3, 2>>, <<2, 1, 3>>, <<2, 3, 1>>, <<3, 1, 2>>, <<3, 2, 1>>}

\* what voter called puts out for the inputs v taken in the ordering o
VoteOf(called, v, o) ==
  IF called = "Voter1"
  THEN <<v[o[1]], v[o[2]], v[o[3]]>>[Voter1Index(v[o[1]], v[o[2]], v[o[3]]) + 1]
  ELSE <<v[o[1]], v[o[2]], v[o[3]]>>[AutothrustVoterIndex(v[o[1]], v[o[2]], v[o[3]]) + 1]

\* C25: for every three inputs, ties included, the voter's output is the
\* median: it is one of the three inputs, at least two inputs are <= it and at
\* least two are >= it, and every ordering of the same three values gives the
\* same output.
C25_VoterIsMedian ==
  dwork.called /= "none" =>
    /\ \E k \in 1 .. 3 : dwork.Y = dwork.v[k]
    /\ Cardinality({k \in 1 .. 3 : dwork.v[k] <= dwork.Y}) >= 2
    /\ Cardinality({k \in 1 .. 3 : dwork.v[k] >= dwork.Y}) >= 2
    /\ \A o \in Orderings : VoteOf(dwork.called, dwork.v, o) = dwork.Y

\* C25 witness: a vote on the largest value given first and the two others
\* tied, which takes the last branch
C25_Witness ==
  /\ dwork.called = "Voter1"
  /\ dwork.v[2] = dwork.v[3]
  /\ dwork.v[1] > dwork.v[2]
  /\ dwork.Y = dwork.v[2]

----------------------------------------------------------------------------
(* The N2 imbalance and the timers of the engines, on the engine model *)

\* the N2 imbalance of an engine in 0.01 percent: the fourth field of the code
\* for the engine its first field names, 0 for the other
N2ImbalanceOf(e) == IF imbalance[1] = e THEN imbalance[4] ELSE 0

\* C29: the N2 imbalance is the decoded field divided by 100 (0.30 for field
\* 30) for the engine the code names and 0 for the other, in the steady-state
\* update (published N2 = host N2 - imbalance, published N1 = host N1) and in
\* the start procedure (N2 target = idleN2 - imbalance).
C29_N2ImbalanceApplied ==
  last.ticked =>
    \A e \in Engines :
      /\ last.sm[e].state \notin {2, 3, 4}
           => /\ EngineN1[e] = last.in[e].simN1
              /\ EngineN2[e] = last.in[e].simN2 - N2ImbalanceOf(e)
      /\ (last.sm[e].state \in {2, 3} /\ last.sm[e].timer >= 17)
           => EngineN2[e] = startN2(last.in[e].simN2, last.pre[e].N2, IdleN2 - N2ImbalanceOf(e))

\* C30: at the end of every tick an engine in OFF or ON, or in their paused
\* variants 10 and 11, has timer 0; a non-zero timer occurs only in STARTING,
\* RESTARTING, SHUTTING and their paused variants.
C30_TimerZeroOutsideProcedures ==
  \A e \in Engines :
    /\ EngineState[e] \in {0, 1, 10, 11} => EngineTimer[e] = 0
    /\ EngineTimer[e] /= 0 => EngineState[e] \in {2, 3, 4, 12, 13, 14}

\* C30 witness: the end of a tick on which an engine went from STARTING with a
\* running timer to ON
C30_Witness ==
  /\ last.ticked
  /\ \E e \in Engines :
       /\ last.pre[e].state = 2
       /\ last.pre[e].timer > 0
       /\ EngineState[e] = 1

----------------------------------------------------------------------------
(* The engine loop of update, one step at a time and with both engines     *)
(* driven by the host.  The class keeps one engineState and one timer      *)
(* member for both engines; ctl = [sim, members] is the published values   *)
(* of the two engines next to those members.  In this specification `last` *)
(* holds the position in the loop.                                         *)

\* updates of a session
MaxUpdates == 2

\* what the host reports for an engine in this specification
\* (igniter and starter both off, starter alone, both on; N2 at rest or at idle)
LoopControls == { <<0, 0>>, <<0, 1>>, <<2, 1>> }

LoopInputs ==
  { [igniter |-> c[1], starter |-> c[2], simN2 |-> n, simN1 |-> HostN1(n)] :
      c \in LoopControls, n \in {0, IdleN2 - N2_IDLE_MARGIN} }

\* the members have no initialiser: before the first update they hold anything
StrayMembers == { [engineState |-> 0, timer |-> 0], [engineState |-> 4, timer |-> 5] }

\* mutant: only the first pass reloads the members, the second runs on what the
\* first left in them
LoadEngine_FirstOnly(members, sim, engine) ==
  IF engine = 1
  THEN [engineState |-> sim[engine].state, timer |-> sim[engine].timer]
  ELSE members

\* engineState = getEngineNState(); timer = getEngineNTimer(); of the pass
LoadEngine(members, sim, engine) ==
  [engineState |-> sim[engine].state, timer |-> sim[engine].timer]

\* the call of engineStateMachine of a pass: it loads the engine's own state and
\* EGT, and stores the state and the timer reset
MachinePass(ctl, engine, in, deltaTimeDiff) ==
  LET after == AfterStateMachine(ctl.sim[engine], in, deltaTimeDiff)
  IN  [sim |-> [ctl.sim EXCEPT ![engine] = after],
       members |-> [ctl.members EXCEPT !.engineState = after.state]]

\* the rest of a pass: the members are reloaded and the switch runs on them
ProcedurePass(ctl, engine, in, imb, deltaTime, simOnGround) ==
  LET members == LoadEngine(ctl.members, ctl.sim, engine)
      e1 == [ctl.sim[engine] EXCEPT !.state = members.engineState,
                                    !.timer = members.timer]
  IN  [sim |-> [ctl.sim EXCEPT ![engine] =
                  EngineProcedure(e1, engine, in, imb, deltaTime, simOnGround)],
       members |-> members]

\* for (engine = 1; engine <= 2; engine++) as a whole
UpdateLoop(ctl, in, imb, deltaTime, deltaTimeDiff, simOnGround) ==
  LET m1 == MachinePass(ctl, 1, in[1], deltaTimeDiff)
      p1 == ProcedurePass(m1, 1, in[1], imb, deltaTime, simOnGround)
      m2 == MachinePass(p1, 2, in[2], deltaTimeDiff)
  IN  ProcedurePass(m2, 2, in[2], imb, deltaTime, simOnGround)

Ctl == [sim |-> [e \in Engines |-> Eng(e)], members |-> last.members]

LoopIdle(members, updates) ==
  [stage |-> "idle", engine |-> 0, members |-> members, updates |-> updates,
   deltaTimeDiff |-> 0, entry |-> Parked, in |-> Parked, trace |-> <<>>]

InitLoop ==
  /\ EngineState = [e \in Engines |-> 10]
  /\ EngineTimer = [e \in Engines |-> 0]
  /\ EngineN1 = [e \in Engines |-> 0]
  /\ EngineN2 = [e \in Engines |-> 0]
  /\ EngineEGT = [e \in Engines |-> 0]
  /\ simPaused = FALSE
  /\ imbalance \in ImbalanceCodes
  /\ operated = Parked
  /\ coldStart = [e \in Engines |-> NotCold]
  /\ \E members \in StrayMembers : last = LoopIdle(members, 0)
  /\ decoder = Parked /\ fuel = Parked /\ thrust = Parked /\ chart = Parked
  /\ dwork = Parked /\ lookup = Parked /\ converter = Parked /\ preset = Parked

Publish(ctl) ==
  /\ EngineState' = [e \in Engines |-> ctl.sim[e].state]
  /\ EngineTimer' = [e \in Engines |-> ctl.sim[e].timer]
  /\ EngineN1' = [e \in Engines |-> ctl.sim[e].N1]
  /\ EngineN2' = [e \in Engines |-> ctl.sim[e].N2]
  /\ EngineEGT' = [e \in Engines |-> ctl.sim[e].EGT]

\* update up to the loop: the frame's readings, the same for both passes
updateEnter ==
  /\ last.stage = "idle"
  /\ last.updates < MaxUpdates
  /\ \E deltaTimeDiff \in DeltaTimeDiffs, in \in [Engines -> LoopInputs] :
       last' = [last EXCEPT !.stage = "machine", !.engine = 1,
                            !.deltaTimeDiff = deltaTimeDiff, !.entry = Ctl,
                            !.in = in]
  /\ UNCHANGED <<EngineState, EngineTimer, EngineN1, EngineN2, EngineEGT, simPaused,
                 imbalance, operated, coldStart, decoder, fuel, thrust, chart,
                 dwork, lookup, converter, preset>>

\* the loop body up to the return of engineStateMachine
updateStateMachine ==
  /\ last.stage = "machine"
  /\ \E ctl \in {MachinePass(Ctl, last.engine, last.in[last.engine], last.deltaTimeDiff)} :
       /\ Publish(ctl)
       /\ last' = [last EXCEPT !.stage = "procedure", !.members = ctl.members,
                               !.trace = Append(@, <<"machine", last.engine>>)]
  /\ simPaused' = (last.deltaTimeDiff = 0)
  /\ UNCHANGED <<imbalance, operated, coldStart, decoder, fuel, thrust, chart,
                 dwork, lookup, converter, preset>>

\* the rest of the loop body, and engine++
updateProcedure ==
  /\ last.stage = "procedure"
  /\ \E ctl \in {ProcedurePass(Ctl, last.engine, last.in[last.engine], imbalance, MaxDeltaTime, 1)} :
       /\ Publish(ctl)
       /\ last' = [last EXCEPT !.stage = IF last.engine = 1 THEN "machine" ELSE "done",
                               !.engine = IF last.engine = 1 THEN 2 ELSE 0,
                               !.members = ctl.members,
                               !.trace = Append(@, <<"procedure", last.engine>>)]
  /\ UNCHANGED <<simPaused, imbalance, operated, coldStart, decoder, fuel, thrust,
                 chart, dwork, lookup, converter, preset>>

\* update returns
updateReturn ==
  /\ last.stage = "done"
  /\ last' = LoopIdle(last.members, last.updates + 1)
  /\ UNCHANGED <<EngineState, EngineTimer, EngineN1, EngineN2, EngineEGT, simPaused,
                 imbalance, operated, coldStart, decoder, fuel, thrust, chart,
                 dwork, lookup, converter, preset>>

NextLoop == updateEnter \/ updateStateMachine \/ updateProcedure \/ updateReturn

SpecLoop == InitLoop /\ [][NextLoop]_vars

\* the passes of one update, in the order the claim gives
LoopOrder == << <<"machine", 1>>, <<"procedure", 1>>, <<"machine", 2>>, <<"procedure", 2>> >>

\* the update recomputed with the other engine's stored state and host
\* readings replaced
WithOther(o, state, in) ==
  UpdateLoop([last.entry EXCEPT !.sim[o].state = state],
             [last.in EXCEPT ![o] = in],
             imbalance, MaxDeltaTime, last.deltaTimeDiff, 1)

\* C26: within one update the state machine and the procedure of engine 1
\* complete before those of engine 2 begin, and each engine's resulting state,
\* timer, N1, N2 and EGT are the same whatever the other engine's igniter,
\* starter, N2 and state are.
C26_EnginesInOrderAndIndependent ==
  /\ last.trace = SubSeq(LoopOrder, 1, Len(last.trace))
  /\ last.stage = "done" =>
       \A e \in Engines : \A o \in Engines \ {e} :
         \A state \in EngineStates, in \in LoopInputs :
           WithOther(o, state, in).sim[e] = Eng(e)

\* C26 witness: an update is over in which engine 1 ran the start procedure and
\* engine 2, with other host readings, the steady-state branch
C26_Witness ==
  /\ last.stage = "done"
  /\ last.trace = LoopOrder
  /\ EngineState[1] = 2 /\ EngineTimer[1] > 0
  /\ EngineState[2] = 1
  /\ last.in[1] /= last.in[2]

----------------------------------------------------------------------------
(* The flight-data converter, fdr2csv main.cpp.  converter holds the        *)
(* command line, the input stream, the output file and the position in     *)
(* main; exit is the value main returns.                                   *)

INTERFACE_VERSION == 24

\* value of exit while main runs
Running == "running"

\* the input files of a session: whether the path exists and can be opened, the
\* first bytes of the content and the records that follow them
InputFiles ==
  [absent  |-> [exists |-> FALSE, readable |-> FALSE, bytes |-> <<>>, records |-> 0],
   locked  |-> [exists |-> TRUE, readable |-> FALSE,
                bytes |-> <<24, 0, 0, 0, 0, 0, 0, 0>>, records |-> 1],
   empty   |-> [exists |-> TRUE, readable |-> TRUE, bytes |-> <<>>, records |-> 0],
   short   |-> [exists |-> TRUE, readable |-> TRUE, bytes |-> <<24>>, records |-> 0],
   v23     |-> [exists |-> TRUE, readable |-> TRUE,
                bytes |-> <<23, 0, 0, 0, 0, 0, 0, 0>>, records |-> 2],
   v24     |-> [exists |-> TRUE, readable |-> TRUE,
                bytes |-> <<24, 0, 0, 0, 0, 0, 0, 0>>, records |-> 2],
   v24none |-> [exists |-> TRUE, readable |-> TRUE,
                bytes |-> <<24, 0, 0, 0, 0, 0, 0, 0>>, records |-> 0],
   v280    |-> [exists |-> TRUE, readable |-> TRUE,
                bytes |-> <<24, 1, 0, 0, 0, 0, 0, 0>>, records |-> 1],
   shifted |-> [exists |-> TRUE, readable |-> TRUE,
                bytes |-> <<0, 0, 0, 24, 0, 0, 0, 0>>, records |-> 1]]

\* -i: not given, or one of the files
InFilePaths == {""} \cup DOMAIN InputFiles

\* -o: not given, a file that does not exist yet, a file from an earlier run, a
\* path that cannot be opened for writing
OutFilePaths == {"", "new", "old", "denied"}

\* the output file before the run
OutputBefore(outFilePath) ==
  IF outFilePath \in {"old", "denied"}
  THEN [exists |-> TRUE, rows |-> << <<"stale", 0>> >>]
  ELSE [exists |-> FALSE, rows |-> <<>>]

\* in->read(&fileFormatVersion, 8) on a little-endian host: the bytes the stream
\* has are stored over the zero-initialised value, lowest byte first
RECURSIVE LittleEndian(_)
LittleEndian(bytes) ==
  IF bytes = <<>> THEN 0 ELSE Head(bytes) + 256 * LittleEndian(Tail(bytes))

\* mutant: a file of a later version is accepted
VersionCheck_NewerAccepted(printGetFileInterfaceVersion, fileFormatVersion) ==
  IF printGetFileInterfaceVersion THEN "print"
  ELSE IF INTERFACE_VERSION > fileFormatVersion THEN "mismatch"
  ELSE "convert"

\* the if / else if after the version is read
VersionCheck(printGetFileInterfaceVersion, fileFormatVersion) ==
  IF printGetFileInterfaceVersion THEN "print"
  ELSE IF INTERFACE_VERSION /= fileFormatVersion THEN "mismatch"
  ELSE "convert"

\* out.open(outFilePath, out | trunc)
OpenTruncated(outFilePath, file) ==
  IF outFilePath = "denied"
  THEN [is_open |-> FALSE, file |-> file]
  ELSE [is_open |-> TRUE, file |-> [exists |-> TRUE, rows |-> <<>>]]

CommandLines ==
  [malformed : BOOLEAN, oPrintHelp : BOOLEAN, printGetFileInterfaceVersion : BOOLEAN,
   noCompression : BOOLEAN, inFilePath : InFilePaths, outFilePath : OutFilePaths]

InitConverter ==
  /\ EngineParked
  /\ decoder = Parked /\ fuel = Parked /\ thrust = Parked /\ chart = Parked
  /\ dwork = Parked /\ lookup = Parked /\ preset = Parked
  /\ \E args \in CommandLines :
       converter = [pc |-> "parse", args |-> args, exit |-> Running,
                    cause |-> "", versionRead |-> FALSE, fileFormatVersion |-> 0,
                    in |-> [good |-> FALSE, eof |-> FALSE, records |-> 0, data |-> 0],
                    out |-> OutputBefore(args.outFilePath), counter |-> 0]

Return(code, cause) ==
  converter' = [converter EXCEPT !.pc = "exited", !.exit = code, !.cause = cause]

ConverterStep(pc) ==
  /\ converter.pc = pc
  /\ UNCHANGED <<engineVars, decoder, fuel, thrust, chart, dwork, lookup, preset>>

\* args.parse(argc, argv)
parse ==
  /\ ConverterStep("parse")
  /\ IF converter.args.malformed
     THEN Return(0 - 1, "parse")
     ELSE converter' = [converter EXCEPT !.pc = "help"]

\* print help
printHelp ==
  /\ ConverterStep("help")
  /\ IF converter.args.oPrintHelp
     THEN Return(0, "help")
     ELSE converter' = [converter EXCEPT !.pc = "check"]

\* check parameters
checkParameters ==
  /\ ConverterStep("check")
  /\ LET args == converter.args
     IN  IF args.inFilePath = ""
         THEN Return(1, "input missing")
         ELSE IF ~InputFiles[args.inFilePath].exists
         THEN Return(1, "input does not exist")
         ELSE IF args.outFilePath = "" /\ ~args.printGetFileInterfaceVersion
         THEN Return(1, "output missing")
         ELSE converter' = [converter EXCEPT !.pc = "open input"]

\* create input stream, check if stream is ok
openInput ==
  /\ ConverterStep("open input")
  /\ LET file == InputFiles[converter.args.inFilePath]
     IN  IF ~file.readable
         THEN Return(1, "input unopenable")
         ELSE converter' = [converter EXCEPT !.pc = "read version",
                                             !.in.good = TRUE,
                                             !.in.records = file.records]

\* read file version, print it or compare it
readVersion ==
  /\ ConverterStep("read version")
  /\ LET bytes == InputFiles[converter.args.inFilePath].bytes
         fileFormatVersion == LittleEndian(bytes)
         read == [converter EXCEPT !.versionRead = TRUE,
                                   !.fileFormatVersion = fileFormatVersion,
                                   !.in.eof = Len(bytes) < 8,
                                   !.in.good = Len(bytes) = 8]
         check == VersionCheck(converter.args.printGetFileInterfaceVersion,
                               fileFormatVersion)
     IN  converter' =
           CASE check = "print" ->
                  [read EXCEPT !.pc = "exited", !.exit = 0, !.cause = "version printed"]
             [] check = "mismatch" ->
                  [read EXCEPT !.pc = "exited", !.exit = 1, !.cause = "version mismatch"]
             [] OTHER -> [read EXCEPT !.pc = "open output"]

\* open the output file, write header
openOutput ==
  /\ ConverterStep("open output")
  /\ LET o == OpenTruncated(converter.args.outFilePath, converter.out)
     IN  IF ~o.is_open
         THEN Return(1, "output unopenable")
         ELSE converter' = [converter EXCEPT !.pc = "loop",
                                             !.out.exists = TRUE,
                                             !.out.rows = << <<"header", 0>> >>]

\* one pass of while (!in->eof()): a read that finds no record leaves the
\* structs as they were and sets eof; the row is written either way
convertRecord ==
  /\ ConverterStep("loop")
  /\ ~converter.in.eof
  /\ LET in == converter.in
         data == IF in.good /\ in.records > 0 THEN in.data + 1 ELSE in.data
     IN  converter' = [converter EXCEPT
           !.in = [good |-> in.good /\ in.records > 0,
                   eof |-> ~(in.good /\ in.records > 0),
                   records |-> IF in.good /\ in.records > 0 THEN in.records - 1
                               ELSE in.records,
                   data |-> data],
           !.out.rows = Append(@, <<"row", data>>),
           !.counter = @ + 1]

\* the loop ends: success
finish ==
  /\ ConverterStep("loop")
  /\ converter.in.eof
  /\ Return(0, "converted")

NextConverter ==
  \/ parse \/ printHelp \/ checkParameters \/ openInput \/ readVersion
  \/ openOutput \/ convertRecord \/ finish

SpecConverter == InitConverter /\ [][NextConverter]_vars

Exited == converter.pc = "exited"

\* C27: the converter exits with 0 on --help, on -g and on a completed
\* conversion, and with exactly 1 on every error: command-line parse failure,
\* missing or non-existent input file, missing output path, unopenable input,
\* version mismatch, unopenable output.
C27_ExitCodes ==
  Exited =>
    converter.exit = IF converter.cause \in {"help", "version printed", "converted"}
                     THEN 0
                     ELSE 1

\* C28: when the 8-byte version prefix of the input differs from
\* INTERFACE_VERSION (24) and -g is not given, the converter exits with code 1
\* without creating or truncating the output file and without converting any
\* record.
C28_MismatchLeavesOutput ==
  (/\ Exited
   /\ converter.versionRead
   /\ ~converter.args.printGetFileInterfaceVersion
   /\ Len(InputFiles[converter.args.inFilePath].bytes) = 8
   /\ InputFiles[converter.args.inFilePath].bytes /= <<24, 0, 0, 0, 0, 0, 0, 0>>)
    => /\ converter.exit = 1
       /\ converter.out = OutputBefore(converter.args.outFilePath)
       /\ converter.counter = 0

\* C28 witness: the converter has exited on a file of version 280 with an
\* older output file in place
C28_Witness ==
  /\ Exited
  /\ converter.versionRead
  /\ ~converter.args.printGetFileInterfaceVersion
  /\ converter.args.inFilePath = "v280"
  /\ converter.args.outFilePath = "old"
  /\ converter.exit = 1

\* C40: for an input holding a matching version prefix followed by exactly n
\* complete records, the converter writes the header and exactly n data rows,
\* one per record in file order; it writes no row for a read that hit end of
\* file.
C40_OneRowPerRecord ==
  (/\ Exited
   /\ converter.cause = "converted"
   /\ InputFiles[converter.args.inFilePath].bytes = <<24, 0, 0, 0, 0, 0, 0, 0>>)
    => converter.out.rows =
         << <<"header", 0>> >> \o
         [i \in 1..InputFiles[converter.args.inFilePath].records |-> <<"row", i>>]

----------------------------------------------------------------------------
(* The aircraft preset loader, AircraftPreset.cpp.  preset holds the host   *)
(* variables A32NX_AIRCRAFT_PRESET_LOAD (request, in halves so that a value *)
(* between two integers can be written), ..._LOAD_PROGRESS (a fraction),    *)
(* ..._LOAD_CURRENT_ID and SIM ON GROUND, the members of the class, and for *)
(* the claims the action steps executed in the running load (log), the      *)
(* condition tests that failed in it, and the record of the last tick.      *)
(* Times are in milliseconds.                                               *)

\* the procedures of AircraftProcedures: steps with an id, the delay after the
\* step, whether it is a condition and whether it has an expected-state check
Procedures ==
  [one |-> << [id |-> 11, delayAfter |-> 1000, isConditional |-> FALSE, hasCheck |-> FALSE],
              [id |-> 12, delayAfter |-> 1000, isConditional |-> TRUE, hasCheck |-> FALSE],
              [id |-> 13, delayAfter |-> 0, isConditional |-> FALSE, hasCheck |-> TRUE] >>,
   two |-> << [id |-> 21, delayAfter |-> 0, isConditional |-> FALSE, hasCheck |-> FALSE] >>]

NullProcedure == "nullptr"

\* procedures.getProcedure(id)
getProcedure(id) ==
  CASE id = 1 -> Procedures.one
    [] id = 2 -> Procedures.two
    [] OTHER -> NullProcedure

\* what the host writes to the request variable, in halves: 0, 0.5, 1, 2, 3
RequestValues == {0, 1, 2, 4, 6}

\* seconds to milliseconds: deltaTime * 1000, for frames of 0 s and 1 s
PresetDeltaTimes == {0, 1000}

\* condition tests that may fail in one load
MaxFailedTests == 2

\* mutant: the request is rounded up to the next integer
RequestRead_RoundedUp(request) == (request + 1) \div 2

\* static_cast<int64_t>(getLoadAircraftPresetRequest())
RequestRead(request) == request \div 2

\* setLoadAircraftPresetRequest(value) for an integer value
RequestWritten(value) == 2 * value

NoPresetTick ==
  [ticked |-> FALSE, request |-> 0, simOnGround |-> TRUE, loadingIsActive |-> FALSE,
   currentStep |-> 0, currentProcedureID |-> 0, executed |-> 0 - 1, tested |-> 0 - 1]

\* mutant: an action step is executed and the index stays
ExecuteStep_Stay(p, currentStepPtr, size) ==
  [p EXCEPT !.progress = Frac(p.currentStep, size),
            !.progressId = currentStepPtr.id,
            !.log = Append(@, p.currentStep),
            !.last.executed = p.currentStep]

\* update progress var, execute code to set expected state, currentStep++
ExecuteStep(p, currentStepPtr, size) ==
  [p EXCEPT !.progress = Frac(p.currentStep, size),
            !.progressId = currentStepPtr.id,
            !.log = Append(@, p.currentStep),
            !.last.executed = p.currentStep,
            !.currentStep = @ + 1]

\* the part of onUpdate past the delay check, on the current step
RunStep(p, fvalue) ==
  LET currentProcedure == getProcedure(p.currentProcedureID)
      size == Len(currentProcedure)
      currentStepPtr == currentProcedure[p.currentStep + 1]
      q == [p EXCEPT !.currentDelay = p.currentLoadingTime + currentStepPtr.delayAfter]
  IN  IF currentStepPtr.isConditional
      THEN LET t == [q EXCEPT !.progress = Frac(p.currentStep, size),
                              !.progressId = currentStepPtr.id,
                              !.last.tested = p.currentStep]
           IN  IF fvalue
               THEN [t EXCEPT !.currentDelay = 0, !.currentStep = @ + 1]
               ELSE [t EXCEPT !.failed = @ + 1]
      ELSE IF currentStepPtr.hasCheck /\ fvalue
      THEN [q EXCEPT !.currentDelay = 0, !.currentStep = @ + 1]
      ELSE ExecuteStep(q, currentStepPtr, size)

\* mutant: a request in the air is reset and a running load goes on
RejectRequest_KeepsLoading(p) == [p EXCEPT !.request = RequestWritten(0)]

\* setLoadAircraftPresetRequest(0); loadingIsActive = false; return;
RejectRequest(p) == [p EXCEPT !.request = RequestWritten(0), !.loadingIsActive = FALSE]

\* mutant: the run timer stands still
AdvanceLoadingTime_Frozen(currentLoadingTime, deltaTime) == currentLoadingTime

\* currentLoadingTime += deltaTime * 1000
AdvanceLoadingTime(currentLoadingTime, deltaTime) == currentLoadingTime + deltaTime

\* AircraftPreset::onUpdate, on the record p of which last is the tick's record
onUpdateOf(p, deltaTime, fvalue) ==
  LET loadAircraftPresetRequest == RequestRead(p.request)
  IN  IF ~p.isInitialized THEN p
      ELSE IF loadAircraftPresetRequest /= 0
      THEN IF ~p.simOnGround
           THEN RejectRequest(p)
           ELSE IF ~p.loadingIsActive
           THEN IF getProcedure(loadAircraftPresetRequest) = NullProcedure
                THEN RejectRequest(p)
                ELSE [p EXCEPT !.currentProcedureID = loadAircraftPresetRequest,
                               !.currentLoadingTime = 0,
                               !.currentDelay = 0,
                               !.currentStep = 0,
                               !.loadingIsActive = TRUE,
                               !.progress = Frac(0, 1),
                               !.progressId = 0,
                               !.log = <<>>,
                               !.failed = 0]
           ELSE LET q == [p EXCEPT !.request = RequestWritten(p.currentProcedureID)]
                IN  IF q.currentStep >= Len(getProcedure(q.currentProcedureID))
                    THEN [q EXCEPT !.progress = Frac(0, 1),
                                   !.progressId = 0,
                                   !.request = RequestWritten(0),
                                   !.loadingIsActive = FALSE]
                    ELSE LET r == [q EXCEPT !.currentLoadingTime = AdvanceLoadingTime(@, deltaTime)]
                         IN  IF r.currentLoadingTime <= r.currentDelay
                             THEN r
                             ELSE RunStep(r, fvalue)
      ELSE IF p.loadingIsActive
      THEN [p EXCEPT !.loadingIsActive = FALSE]
      ELSE p

\* the tick's record: what the tick found
PresetTick(p) ==
  [ticked |-> TRUE, request |-> p.request, simOnGround |-> p.simOnGround,
   loadingIsActive |-> p.loadingIsActive, currentStep |-> p.currentStep,
   currentProcedureID |-> p.currentProcedureID, executed |-> 0 - 1, tested |-> 0 - 1]

\* a condition test may fail only MaxFailedTests times in a load
MayFail(p) ==
  IF ~p.loadingIsActive THEN TRUE
  ELSE IF p.currentStep >= Len(getProcedure(p.currentProcedureID)) THEN TRUE
  ELSE IF ~getProcedure(p.currentProcedureID)[p.currentStep + 1].isConditional THEN TRUE
  ELSE p.failed < MaxFailedTests

\* AircraftPreset::initialize
InitPreset ==
  /\ EngineParked
  /\ decoder = Parked /\ fuel = Parked /\ thrust = Parked /\ chart = Parked
  /\ dwork = Parked /\ lookup = Parked /\ converter = Parked
  /\ preset = [isInitialized |-> TRUE, request |-> RequestWritten(0),
               progress |-> Frac(0, 1), progressId |-> 0, simOnGround |-> TRUE,
               loadingIsActive |-> FALSE, currentProcedureID |-> 0,
               currentLoadingTime |-> 0, currentDelay |-> 0, currentStep |-> 0,
               log |-> <<>>, failed |-> 0, last |-> NoPresetTick]

PresetUnchanged ==
  UNCHANGED <<engineVars, decoder, fuel, thrust, chart, dwork, lookup, converter>>

\* a frame in which the deltaTime is one of deltaTimes
PresetFrame(deltaTimes) ==
  /\ \E deltaTime \in deltaTimes, fvalue \in BOOLEAN :
       /\ IF fvalue THEN TRUE ELSE MayFail(preset)
       /\ preset' = onUpdateOf([preset EXCEPT !.last = PresetTick(preset)],
                               deltaTime, fvalue)
  /\ PresetUnchanged

\* the gauge calls onUpdate
onUpdate == PresetFrame(PresetDeltaTimes)

\* the flyPad, or anything else on the host, writes the request variable
hostWritesRequest ==
  /\ \E value \in RequestValues \ {preset.request} :
       preset' = [preset EXCEPT !.request = value, !.last = NoPresetTick]
  /\ PresetUnchanged

\* the aircraft leaves the ground or lands
hostMovesAircraft ==
  /\ preset' = [preset EXCEPT !.simOnGround = ~@, !.last = NoPresetTick]
  /\ PresetUnchanged

NextPreset == onUpdate \/ hostWritesRequest \/ hostMovesAircraft

SpecPreset == InitPreset /\ [][NextPreset]_vars

\* C36: a preset load request seen while the aircraft is not on the ground is
\* rejected: the request variable is reset to 0, loading becomes inactive and
\* no procedure step is executed in that tick, also when a load is in progress.
C36_AirborneRequestRejected ==
  (/\ preset.last.ticked
   /\ RequestRead(preset.last.request) /= 0
   /\ ~preset.last.simOnGround)
    => /\ preset.request = 0
       /\ ~preset.loadingIsActive
       /\ preset.last.executed = 0 - 1
       /\ preset.last.tested = 0 - 1
       /\ preset.currentStep = preset.last.currentStep

\* C36 witness: a tick found a request for the running procedure in the air,
\* after the first step of the load
C36_Witness ==
  /\ preset.last.ticked
  /\ preset.last.request = 2
  /\ ~preset.last.simOnGround
  /\ preset.last.loadingIsActive
  /\ preset.last.currentStep = 1
  /\ ~preset.loadingIsActive

\* a tick found a load in progress on the ground, with steps left
LoadRunning ==
  /\ preset.last.ticked
  /\ preset.last.loadingIsActive
  /\ preset.last.simOnGround
  /\ preset.last.currentStep < Len(getProcedure(preset.last.currentProcedureID))

\* the tick wrote the running procedure's ID over the request and went on with
\* the procedure at its current step
LoadContinued ==
  /\ preset.request = 2 * preset.last.currentProcedureID
  /\ preset.loadingIsActive
  /\ preset.currentProcedureID = preset.last.currentProcedureID
  /\ preset.currentStep \in {preset.last.currentStep, preset.last.currentStep + 1}
  /\ preset.last.executed \in {0 - 1, preset.last.currentStep}
  /\ preset.last.tested \in {0 - 1, preset.last.currentStep}

\* the tick made loading inactive and ran no step
LoadInterrupted ==
  /\ ~preset.loadingIsActive
  /\ preset.currentStep = preset.last.currentStep
  /\ preset.last.executed = 0 - 1
  /\ preset.last.tested = 0 - 1

\* a tick that finds loading inactive runs no step
IdleRunsNoStep ==
  (preset.last.ticked /\ ~preset.last.loadingIsActive)
    => (preset.last.executed = 0 - 1 /\ preset.last.tested = 0 - 1)

StepsInOrder ==
  /\ \A i, j \in 1..Len(preset.log) : i < j => preset.log[i] < preset.log[j]
  /\ preset.loadingIsActive =>
       /\ preset.currentStep <= Len(getProcedure(preset.currentProcedureID))
       /\ \A i \in 1..Len(preset.log) : preset.log[i] < preset.currentStep
  /\ (preset.last.ticked /\ preset.last.loadingIsActive /\ preset.loadingIsActive)
       => preset.currentStep >= preset.last.currentStep

\* a tick found the load past its last step
PastLastStep ==
  /\ preset.last.ticked
  /\ preset.last.loadingIsActive
  /\ preset.last.currentStep >= Len(getProcedure(preset.last.currentProcedureID))

LoadReset ==
  /\ preset.request = 0
  /\ preset.progress = <<0, 1>>
  /\ preset.progressId = 0
  /\ ~preset.loadingIsActive

\* C38: during one preset load the steps of the procedure are executed in index
\* order, each action step at most once, the step index never decreases and
\* never exceeds the procedure length, and on the tick after the last step has
\* been passed the request variable and both progress variables are reset to 0
\* and loading becomes inactive.
C38_StepsInOrderThenReset ==
  /\ StepsInOrder
  /\ PastLastStep => LoadReset

\* C38 as the code has it: the reset of the request and progress variables is
\* made by the tick after the last step if that tick still finds the request
\* set and the aircraft on the ground; a tick that finds the request cleared or
\* the aircraft in the air ends the load and leaves the progress variables.
C38_StepsInOrderThenResetIfRequested ==
  /\ StepsInOrder
  /\ (PastLastStep /\ RequestRead(preset.last.request) /= 0 /\ preset.last.simOnGround)
       => LoadReset
  /\ (PastLastStep /\ ~(RequestRead(preset.last.request) /= 0 /\ preset.last.simOnGround))
       => ~preset.loadingIsActive

\* C38 witness: procedure 1 has run its first and third step, passed its
\* condition, and the tick after the last step has reset the variables
C38_Witness ==
  /\ PastLastStep
  /\ preset.last.currentProcedureID = 1
  /\ preset.last.currentStep = 3
  /\ preset.log = <<0, 2>>
  /\ LoadReset

----------------------------------------------------------------------------
(* A session on the ground in which time advances on every frame and the    *)
(* request is never cleared by the host: the host only writes procedure     *)
(* numbers, and the gauge calls onUpdate again and again.  A condition      *)
(* fails at most MaxFailedTests times in a load.                            *)

\* seconds to milliseconds, for frames of 1 s and 2 s
RunningDeltaTimes == {1000, 2000}

\* the flyPad writes a procedure number: 1, 2 or 3
hostRequestsPreset ==
  /\ \E value \in {2, 4, 6} \ {preset.request} :
       preset' = [preset EXCEPT !.request = value, !.last = NoPresetTick]
  /\ PresetUnchanged

\* the gauge calls onUpdate with a positive deltaTime
onUpdateRunning == PresetFrame(RunningDeltaTimes)

NextPresetRun == hostRequestsPreset \/ onUpdateRunning

SpecPresetRun == InitPreset /\ [][NextPresetRun]_vars /\ WF_vars(onUpdateRunning)

\* C39: if the aircraft stays on the ground, the request is not cleared,
\* deltaTime is positive on every tick and every conditional step's condition
\* eventually evaluates true, then a started preset procedure finishes after
\* finitely many ticks with the request variable back at 0 and loading
\* inactive.
C39_StartedLoadFinishes ==
  preset.loadingIsActive ~> (~preset.loadingIsActive /\ preset.request = 0)

\* C39 witness: procedure 1 has finished after its condition had failed as
\* often as it may
C39_Witness ==
  /\ PastLastStep
  /\ preset.last.currentProcedureID = 1
  /\ preset.failed = MaxFailedTests
  /\ preset.simOnGround
  /\ LoadReset

----------------------------------------------------------------------------
(* The thrust limits once more *)

\* C31: at the end of every updateThrustLimits call, a FLEX temperature of 0
\* implies that isFlexActive and isTransitionActive are both false, for every
\* sequence of thrust-limit types and FLEX temperatures.
C31_NoFlexWithoutTemperature ==
  (thrust.simulationTime > 0 /\ thrust.prevFlexTemperature = 0)
    => (~thrust.isFlexActive /\ ~thrust.isTransitionActive)

----------------------------------------------------------------------------
(* The thrust transitions for MCT and TOGA at the end of updateThrustLimits. *)
(* Limits are in 0.1 percent and multiples of 4, the factors in quarters,    *)
(* the Mach number in 0.005; the altitudes and Mach numbers of LimitInputs   *)
(* are those for which the factors are whole quarters.                       *)

\* max(0.0, min(1.0, (x - from) / width)), in quarters
FactorQuarters(x, from, width) == Max(0, Min(4, (4 * (x - from)) \div width))

\* mutant: below 25,000 ft an MCT above TOGA is lowered and TOGA stays
AdaptLimits_TogaStays(toga, clb, mct, altitude, mach) ==
  LET machFactor == FactorQuarters(mach, 74, 10)
      altitudeFactorLow == FactorQuarters(altitude, 16600, 500)
      altitudeFactorHigh == FactorQuarters(altitude, 25000, 500)
      f == Min(4, altitudeFactorLow + machFactor)
  IN  IF altitude >= 25000
      THEN LET m == Max(clb, mct + ((clb - mct) * altitudeFactorHigh) \div 4)
           IN  [toga |-> m, mct |-> m]
      ELSE IF mct > toga
      THEN [toga |-> toga, mct |-> toga + ((mct - toga) * f) \div 4]
      ELSE [toga |-> toga + ((mct - toga) * f) \div 4, mct |-> mct]

\* adapt thrust limits: the published TOGA and MCT limits
AdaptLimits(toga, clb, mct, altitude, mach) ==
  LET machFactor == FactorQuarters(mach, 74, 10)
      altitudeFactorLow == FactorQuarters(altitude, 16600, 500)
      altitudeFactorHigh == FactorQuarters(altitude, 25000, 500)
      f == Min(4, altitudeFactorLow + machFactor)
  IN  IF altitude >= 25000
      THEN LET m == Max(clb, mct + ((clb - mct) * altitudeFactorHigh) \div 4)
           IN  [toga |-> m, mct |-> m]
      ELSE IF mct > toga
      THEN LET m == toga + ((mct - toga) * f) \div 4
           IN  [toga |-> m, mct |-> m]
      ELSE [toga |-> toga + ((mct - toga) * f) \div 4, mct |-> mct]

\* what the first part of updateThrustLimits hands over on different days, and
\* where the aircraft is
LimitInputs ==
  [toga : {880, 900}, clb : {0, 872, 904}, mct : {860, 880, 920},
   altitude : {0, 16850, 24900, 25000, 25250, 39000},
   mach : {60, 79, 160}]

NoLimits == [called |-> FALSE]

InitLimits ==
  /\ EngineParked
  /\ decoder = Parked /\ fuel = Parked /\ chart = Parked
  /\ dwork = Parked /\ lookup = Parked /\ converter = Parked /\ preset = Parked
  /\ thrust = NoLimits

\* the end of updateThrustLimits: the limits are adapted and written
writeThrustLimits ==
  /\ \E in \in LimitInputs :
       \E out \in {AdaptLimits(in.toga, in.clb, in.mct, in.altitude, in.mach)} :
         thrust' = [called |-> TRUE, in |-> in,
                    ThrustLimitToga |-> out.toga,
                    ThrustLimitClimb |-> in.clb,
                    ThrustLimitMct |-> out.mct]
  /\ UNCHANGED <<engineVars, decoder, fuel, chart, dwork, lookup, converter, preset>>

NextLimits == writeThrustLimits

SpecLimits == InitLimits /\ [][NextLimits]_vars

\* C32: after every updateThrustLimits call the published TOGA limit is at
\* least the published MCT limit; at or above 25,000 ft the two are equal and
\* MCT is at least the published CLB limit.
C32_TogaAtLeastMct ==
  thrust.called =>
    /\ thrust.ThrustLimitToga >= thrust.ThrustLimitMct
    /\ thrust.in.altitude >= 25000 =>
         /\ thrust.ThrustLimitToga = thrust.ThrustLimitMct
         /\ thrust.ThrustLimitMct >= thrust.ThrustLimitClimb

\* C32 witness: below 25,000 ft the MCT limit came in above the TOGA limit and
\* the factors were between 0 and 1
C32_Witness ==
  /\ thrust.called
  /\ thrust.in.altitude = 16850
  /\ thrust.in.mach = 60
  /\ thrust.in.mct > thrust.in.toga
  /\ thrust.ThrustLimitMct > thrust.in.toga
  /\ thrust.ThrustLimitMct < thrust.in.mct

\* ---------------------------------------------------------------------------
\* Autothrust::step, engagement logic (src/src/fbw/src/model/Autothrust.cpp)
\*
\* dwork holds Autothrust_DWork.  Times are in tenths of a second.  The
\* event times of the code are kept as the time elapsed since the event at
\* the last tick (simulation_time - eventTime), saturated at the threshold
\* the code compares them with; the "eventTime == 0.0" re-arm, which only
\* differs on a tick at simulation_time 0, is not modelled.
\* ---------------------------------------------------------------------------

\* condition_TOGA needs the levers forward for 0.8 s (line 485)
TogaHoldTime == 8
\* the take-off window after touchdown, 30.0 s (lines 470, 478, 491)
TouchdownWindow == 300
\* the mode is published 0.1 s after engagement (line 580)
ModeDelay == 1
\* Autothrust_P.CompareToConstant_const_k: the disconnect button held 15 s
CompareToConstant_const_k == 150

\* Autothrust_P.Logic_table, output Q of the S-R flip-flop block, indexed by
\* ((S << 1) + R) << 1) + Q(previous)
Logic_table == <<FALSE, TRUE, FALSE, FALSE, TRUE, TRUE, FALSE, FALSE>>

Bit(b) == IF b THEN 1 ELSE 0

\* Autothrust_TimeSinceCondition, lines 9-22
TimeSinceCondition(since, dt, condition, not_empty, cap) ==
  IF ~not_empty \/ ~condition THEN 0 ELSE Min(cap, since + dt)

\* lines 338-340: the ATHR_disabled latch
DisabledLatch(sinceDisconnect, reset_disable, previous) ==
  Logic_table[4 * Bit(sinceDisconnect >= CompareToConstant_const_k) + 2 * Bit(reset_disable) + Bit(previous) + 1]

\* lines 355-361: TLA_in_active_range
TLAInActiveRange(in) ==
  IF in.is_engine_operative_1 /\ in.is_engine_operative_2
  THEN in.TLA_1_deg >= 0 /\ in.TLA_1_deg <= 25 /\ in.TLA_2_deg >= 0 /\ in.TLA_2_deg <= 25
  ELSE \/ in.is_engine_operative_1 /\ in.TLA_1_deg >= 0 /\ in.TLA_1_deg <= 35
       \/ in.is_engine_operative_2 /\ in.TLA_2_deg >= 0 /\ in.TLA_2_deg <= 35

\* lines 470-486: condition_TOGA and the timer eventTime_l behind it
ConditionToga(dw, in, time_since_touchdown) ==
  LET elapsed == IF dw.eventTime_not_empty_m THEN Min(TogaHoldTime, dw.sinceToga + in.dt) ELSE 0
  IN IF time_since_touchdown < TouchdownWindow /\ in.TLA_1_deg = 45 /\ in.TLA_2_deg = 45
     THEN [condition |-> TRUE, sinceToga |-> elapsed, not_empty |-> dw.eventTime_not_empty_m]
     ELSE LET since == IF \/ ~dw.eventTime_not_empty_m
                          \/ time_since_touchdown < TouchdownWindow
                          \/ in.TLA_1_deg < 35
                          \/ in.TLA_2_deg < 35
                       THEN 0 ELSE elapsed
          IN [condition |-> since >= TogaHoldTime, sinceToga |-> since, not_empty |-> TRUE]

\* lines 489-492
FlightDirectorOffTakeOff(dw, in, on_ground, condition_TOGA, time_since_touchdown, ATHR_PB) ==
  \/ /\ ~in.FD_active
     /\ on_ground
     /\ condition_TOGA
     /\ (in.flight_phase <= 1 \/ time_since_touchdown >= TouchdownWindow)
  \/ /\ ~ATHR_PB
     /\ ~TLAInActiveRange(in)
     /\ ~in.alpha_floor_condition
     /\ dw.flightDirectorOffTakeOff

AthrEngaged_IgnoresDisabled(dw, in, disabled, fdOff, ATHR_PB, condition_TOGA) ==
  LET tmp   == dw.prev_TLA_1 <= 0 \/ in.TLA_1_deg # 0
      tmp_0 == dw.prev_TLA_2 <= 0 \/ in.TLA_2_deg # 0
  IN \/ /\ ~fdOff
        /\ (ATHR_PB \/ condition_TOGA \/ in.alpha_floor_condition)
     \/ /\ ~disabled
        /\ (~in.ATHR_push \/ ~dw.ATHR_ENGAGED \/ in.is_LAND_mode_active)
        /\ ~in.ATHR_disconnect
        /\ (tmp \/ tmp_0) /\ (tmp \/ in.TLA_2_deg # 0) /\ (tmp_0 \/ in.TLA_1_deg # 0)
        /\ dw.ATHR_ENGAGED

\* lines 493-500: Autothrust_DWork.ATHR_ENGAGED
AthrEngaged(dw, in, disabled, fdOff, ATHR_PB, condition_TOGA) ==
  LET tmp   == dw.prev_TLA_1 <= 0 \/ in.TLA_1_deg # 0
      tmp_0 == dw.prev_TLA_2 <= 0 \/ in.TLA_2_deg # 0
  IN \/ /\ ~disabled
        /\ ~fdOff
        /\ (ATHR_PB \/ condition_TOGA \/ in.alpha_floor_condition)
     \/ /\ ~disabled
        /\ (~in.ATHR_push \/ ~dw.ATHR_ENGAGED \/ in.is_LAND_mode_active)
        /\ ~in.ATHR_disconnect
        /\ (tmp \/ tmp_0) /\ (tmp \/ in.TLA_2_deg # 0) /\ (tmp_0 \/ in.TLA_1_deg # 0)
        /\ dw.ATHR_ENGAGED

\* lines 501-509: rtb_status
AthrStatus(engaged, in) ==
  IF engaged /\ (TLAInActiveRange(in) \/ in.alpha_floor_condition) THEN "ENGAGED_ACTIVE"
  ELSE IF engaged THEN "ENGAGED_ARMED"
  ELSE "DISENGAGED"

AthrMode_NoTogaLock(pMode, status, in, pConditionAlphaFloor) ==
  IF status = "DISENGAGED" THEN "NONE"
  ELSE IF in.alpha_floor_condition THEN "A_FLOOR"
  ELSE pMode

\* lines 521-569: Autothrust_DWork.pMode
AthrMode(pMode, status, in, pConditionAlphaFloor) ==
  LET maxTLA == Max(in.TLA_1_deg, in.TLA_2_deg)
      armed  == status = "ENGAGED_ARMED"
      active == status = "ENGAGED_ACTIVE"
      both   == in.is_engine_operative_1 /\ in.is_engine_operative_2
      only1  == in.is_engine_operative_1 /\ ~in.is_engine_operative_2
      only2  == in.is_engine_operative_2 /\ ~in.is_engine_operative_1
  IN IF status = "DISENGAGED" THEN "NONE"
     ELSE IF in.alpha_floor_condition THEN "A_FLOOR"
     ELSE IF ~in.alpha_floor_condition /\ pConditionAlphaFloor THEN "TOGA_LK"
     ELSE IF armed /\ (in.TLA_1_deg = 45 \/ in.TLA_2_deg = 45) THEN "MAN_TOGA"
     ELSE IF armed /\ in.is_FLX_active /\ maxTLA = 35 THEN "MAN_FLEX"
     ELSE IF armed /\ (in.TLA_1_deg = 35 \/ in.TLA_2_deg = 35) THEN "MAN_MCT"
     ELSE IF /\ active /\ in.mode_requested = 3
             /\ \/ only1 /\ in.TLA_1_deg = 35 /\ in.TLA_2_deg <= 35
                \/ only2 /\ in.TLA_2_deg = 35 /\ in.TLA_1_deg <= 35
          THEN "THR_MCT"
     ELSE IF active /\ in.mode_requested = 3 /\ both /\ maxTLA = 25 THEN "THR_CLB"
     ELSE IF /\ active /\ in.mode_requested = 3
             /\ \/ both /\ in.TLA_1_deg < 25 /\ in.TLA_2_deg < 25
                \/ only1 /\ in.TLA_1_deg < 35
                \/ only2 /\ in.TLA_2_deg < 35
          THEN "THR_LVR"
     ELSE IF armed /\ ((both /\ maxTLA > 25 /\ maxTLA < 35) \/ (maxTLA > 35 /\ maxTLA < 45)) THEN "MAN_THR"
     ELSE IF active /\ in.mode_requested = 2 THEN "THR_IDLE"
     ELSE IF active /\ in.mode_requested = 1 /\ ~in.is_mach_mode_active THEN "SPEED"
     ELSE IF active /\ in.mode_requested = 1 /\ in.is_mach_mode_active THEN "MACH"
     ELSE pMode

\* the engagement part of one call of step: lines 201-216, 336-340, 374,
\* 468-584 and the outputs written at lines 970, 1024, 1025
AutothrustStep(dw, in) ==
  LET on_ground == IF ~dw.is_active_c5_Autothrust THEN TRUE ELSE in.on_ground
      sinceDisconnect == TimeSinceCondition(dw.sinceDisconnect, in.dt, in.ATHR_disconnect, dw.is_active_c5_Autothrust, CompareToConstant_const_k)
      disabled == DisabledLatch(sinceDisconnect, in.ATHR_reset_disable, dw.Memory_PreviousInput)
      time_since_touchdown == TimeSinceCondition(dw.sinceTouchdown, in.dt, on_ground, dw.is_active_c5_Autothrust, TouchdownWindow)
      prev1 == IF dw.is_active_c5_Autothrust THEN dw.prev_TLA_1 ELSE in.TLA_1_deg
      prev2 == IF dw.is_active_c5_Autothrust THEN dw.prev_TLA_2 ELSE in.TLA_2_deg
      dw0 == [dw EXCEPT !.prev_TLA_1 = prev1, !.prev_TLA_2 = prev2]
      ATHR_PB == ~on_ground /\ ~dw.ATHR_ENGAGED /\ in.ATHR_push
      toga == ConditionToga(dw, in, time_since_touchdown)
      fdOff == FlightDirectorOffTakeOff(dw, in, on_ground, toga.condition, time_since_touchdown, ATHR_PB)
      engaged == AthrEngaged(dw0, in, disabled, fdOff, ATHR_PB, toga.condition)
      status == AthrStatus(engaged, in)
      pConditionAlphaFloor == in.alpha_floor_condition \/ (status # "DISENGAGED" /\ dw.pConditionAlphaFloor)
      pMode == AthrMode(dw.pMode, status, in, pConditionAlphaFloor)
      sinceEngaged == TimeSinceCondition(dw.sinceEngaged, in.dt, status # "DISENGAGED", dw.is_active_c5_Autothrust, ModeDelay)
  IN [is_active_c5_Autothrust |-> TRUE,
      sinceDisconnect |-> sinceDisconnect,
      Memory_PreviousInput |-> disabled,
      sinceTouchdown |-> time_since_touchdown,
      sinceToga |-> toga.sinceToga,
      eventTime_not_empty_m |-> toga.not_empty,
      flightDirectorOffTakeOff |-> fdOff,
      ATHR_ENGAGED |-> engaged,
      prev_TLA_1 |-> in.TLA_1_deg,
      prev_TLA_2 |-> in.TLA_2_deg,
      pConditionAlphaFloor |-> pConditionAlphaFloor,
      pMode |-> pMode,
      sinceEngaged |-> sinceEngaged,
      status |-> status,
      mode |-> IF sinceEngaged >= ModeDelay THEN pMode ELSE "NONE",
      ATHR_disabled |-> disabled,
      in |-> in,
      \* history: alpha floor has occurred while engaged, no disengagement since
      floorWhileEngaged |-> status # "DISENGAGED" /\ (in.alpha_floor_condition \/ dw.floorWhileEngaged)]

\* a quiet frame; the other input sets vary it
QuietInput ==
  [dt |-> 100, ATHR_disconnect |-> FALSE, ATHR_reset_disable |-> FALSE, on_ground |-> FALSE,
   ATHR_push |-> FALSE, alpha_floor_condition |-> FALSE, TLA_1_deg |-> 25, TLA_2_deg |-> 25,
   FD_active |-> TRUE, flight_phase |-> 5, is_LAND_mode_active |-> FALSE,
   is_engine_operative_1 |-> TRUE, is_engine_operative_2 |-> TRUE,
   mode_requested |-> 1, is_mach_mode_active |-> FALSE, is_FLX_active |-> FALSE]

AutothrustDeltaTimes == {100, 150}
AutothrustLevers == {0, 25, 45}

AutothrustInputs ==
  {[QuietInput EXCEPT !.dt = dt, !.ATHR_disconnect = disc, !.on_ground = gnd, !.ATHR_push = push,
                      !.alpha_floor_condition = floor, !.TLA_1_deg = tla, !.TLA_2_deg = tla,
                      !.mode_requested = req] :
      dt \in AutothrustDeltaTimes, disc \in BOOLEAN, gnd \in BOOLEAN, push \in BOOLEAN,
      floor \in BOOLEAN, tla \in AutothrustLevers, req \in {1, 3}}
  \cup {[QuietInput EXCEPT !.ATHR_reset_disable = TRUE, !.ATHR_disconnect = disc, !.alpha_floor_condition = floor] :
          disc \in BOOLEAN, floor \in BOOLEAN}
  \cup {[QuietInput EXCEPT !.FD_active = FALSE, !.on_ground = TRUE, !.flight_phase = 1, !.TLA_1_deg = tla, !.TLA_2_deg = tla] :
          tla \in {35, 45}}
  \cup {[QuietInput EXCEPT !.is_mach_mode_active = TRUE],
        [QuietInput EXCEPT !.mode_requested = 2],
        [QuietInput EXCEPT !.is_LAND_mode_active = TRUE, !.ATHR_push = TRUE],
        [QuietInput EXCEPT !.TLA_1_deg = 30, !.TLA_2_deg = 25],
        [QuietInput EXCEPT !.TLA_1_deg = 35, !.TLA_2_deg = 35, !.is_FLX_active = TRUE],
        [QuietInput EXCEPT !.TLA_1_deg = 35, !.TLA_2_deg = 0, !.is_engine_operative_2 = FALSE, !.mode_requested = 3]}

AutothrustDW0 ==
  [is_active_c5_Autothrust |-> FALSE, sinceDisconnect |-> 0, Memory_PreviousInput |-> FALSE,
   sinceTouchdown |-> 0, sinceToga |-> 0, eventTime_not_empty_m |-> FALSE,
   flightDirectorOffTakeOff |-> FALSE, ATHR_ENGAGED |-> FALSE, prev_TLA_1 |-> 0, prev_TLA_2 |-> 0,
   pConditionAlphaFloor |-> FALSE, pMode |-> "NONE", sinceEngaged |-> 0,
   status |-> "DISENGAGED", mode |-> "NONE", ATHR_disabled |-> FALSE, in |-> QuietInput,
   floorWhileEngaged |-> FALSE]

InitAutothrust ==
  /\ EngineParked
  /\ decoder = Parked /\ fuel = Parked /\ chart = Parked /\ thrust = Parked
  /\ lookup = Parked /\ converter = Parked /\ preset = Parked
  /\ dwork = AutothrustDW0

\* one call of Autothrust::step
step ==
  /\ \E in \in AutothrustInputs : dwork' = AutothrustStep(dwork, in)
  /\ UNCHANGED <<engineVars, decoder, fuel, chart, thrust, lookup, converter, preset>>

NextAutothrust == step

SpecAutothrust == InitAutothrust /\ [][NextAutothrust]_vars

\* the frame asks for engagement: alpha floor, or both levers in TOGA
AsksEngagement(in) ==
  in.alpha_floor_condition \/ (in.TLA_1_deg = 45 /\ in.TLA_2_deg = 45)

\* C33: while the ATHR_disabled latch is true the autothrust is not engaged,
\* the status is DISENGAGED and the mode output is NONE, whatever the inputs
\* of the tick, alpha floor and TOGA levers included.
C33_DisabledNeverEngages ==
  (dwork.is_active_c5_Autothrust /\ dwork.ATHR_disabled) =>
    /\ ~dwork.ATHR_ENGAGED
    /\ dwork.status = "DISENGAGED"
    /\ dwork.mode = "NONE"

\* C33 witness: a tick with the latch set whose inputs ask for engagement
C33_Witness ==
  /\ dwork.is_active_c5_Autothrust
  /\ dwork.ATHR_disabled
  /\ dwork.in.alpha_floor_condition
  /\ dwork.in.TLA_1_deg = 45 /\ dwork.in.TLA_2_deg = 45
  /\ dwork.status = "DISENGAGED"
  /\ dwork.mode = "NONE"

\* C34: once alpha floor has occurred while the autothrust is engaged, on
\* every later tick without alpha floor and before a disengagement the
\* internal mode is TOGA_LK, never a SPEED, MACH or THR mode.
C34_TogaLockHeld ==
  (dwork.floorWhileEngaged /\ ~dwork.in.alpha_floor_condition) => dwork.pMode = "TOGA_LK"

\* C34 witness: alpha floor has cleared, the frame asks for SPEED with the
\* levers in the active range, and the mode is held at TOGA_LK
C34_Witness ==
  /\ dwork.floorWhileEngaged
  /\ ~dwork.in.alpha_floor_condition
  /\ dwork.status = "ENGAGED_ACTIVE"
  /\ dwork.in.mode_requested = 1
  /\ dwork.pMode = "TOGA_LK"
  /\ dwork.mode = "TOGA_LK"

\* ---------------------------------------------------------------------------
\* The rate limiters under a constant input: dwork holds the input u, which
\* never changes, and the work areas of the two limiters.
\* ---------------------------------------------------------------------------

HoldSignals == {-7, 1, 3, 9}
\* non-zero rates and positive sample times
HoldLimits == {-2, 1, 3}
HoldSampleTimes == {1, 2}

InitRateHold ==
  /\ EngineParked
  /\ decoder = Parked /\ fuel = Parked /\ thrust = Parked /\ chart = Parked
  /\ lookup = Parked /\ converter = Parked /\ preset = Parked
  /\ \E u \in HoldSignals :
       dwork = [u |-> u, sf_RateLimiter |-> RateLimiterDW0, sf_RateLimiter_b |-> RateLimiterDW0,
                last |-> [called |-> "none", entry |-> 0, out |-> 0, up |-> 0, lo |-> 0, Ts |-> 0]]

\* the work areas after a call on limiter which that adds delta to its pY
RateHoldCall(which, delta, up, lo, Ts) ==
  LET entry == RateLimiterEntry(dwork[which], RateInit)
  IN  [dwork EXCEPT ![which] = [pY |-> entry + delta, pY_not_empty |-> TRUE],
                    !.last = [called |-> which, entry |-> entry, out |-> entry + delta,
                              up |-> up, lo |-> lo, Ts |-> Ts]]

\* AutopilotLaws_RateLimiter called with the held input
AutopilotLaws_RateLimiter_Held ==
  /\ \E up \in HoldLimits, lo \in HoldLimits, Ts \in HoldSampleTimes :
       dwork' = RateHoldCall("sf_RateLimiter", RateLimiterDelta(dwork.u, RateLimiterEntry(dwork.sf_RateLimiter, RateInit), up, lo, Ts), up, lo, Ts)
  /\ UNCHANGED <<engineVars, decoder, fuel, thrust, chart, lookup, converter, preset>>

\* Autothrust_RateLimiter called with the held input
Autothrust_RateLimiter_Held ==
  /\ \E up \in HoldLimits, lo \in HoldLimits, Ts \in HoldSampleTimes :
       dwork' = RateHoldCall("sf_RateLimiter_b", AutothrustRateLimiterDelta(dwork.u, RateLimiterEntry(dwork.sf_RateLimiter_b, RateInit), up, lo, Ts), up, lo, Ts)
  /\ UNCHANGED <<engineVars, decoder, fuel, thrust, chart, lookup, converter, preset>>

NextRateHold == AutopilotLaws_RateLimiter_Held \/ Autothrust_RateLimiter_Held

\* every frame calls each limiter, so neither is left uncalled for ever
SpecRateHold ==
  /\ InitRateHold
  /\ [][NextRateHold]_vars
  /\ WF_vars(AutopilotLaws_RateLimiter_Held)
  /\ WF_vars(Autothrust_RateLimiter_Held)

\* the last call did not pass the input
NoOvershoot ==
  /\ dwork.last.entry <= dwork.u => dwork.last.out <= dwork.u
  /\ dwork.last.entry >= dwork.u => dwork.last.out >= dwork.u

\* the input was within the allowed delta of the entry value of the last call
WithinDelta ==
  /\ dwork.u - dwork.last.entry <= Abs(dwork.last.up) * dwork.last.Ts
  /\ dwork.u - dwork.last.entry >= -Abs(dwork.last.lo) * dwork.last.Ts

\* both limiters have been called and are at the input
HoldReached ==
  /\ dwork.sf_RateLimiter.pY_not_empty /\ dwork.sf_RateLimiter.pY = dwork.u
  /\ dwork.sf_RateLimiter_b.pY_not_empty /\ dwork.sf_RateLimiter_b.pY = dwork.u

====
